---- MODULE Spec2Model ----
(***************************************************************************)
(* A model of the CalcDiffPro calculus engine: the derivative engine       *)
(* (calculateDerivative, deriveExplicit and its rule handlers,             *)
(* calculateImplicitDerivative), the second derivative engine with its     *)
(* derivativeCache, and the limit engine (calculateLimit,                  *)
(* handleInfinityLimit, detectIndetermination, resolveIndetermination and  *)
(* its strategies).                                                        *)
(*                                                                         *)
(* Expressions are strings, modelled as sequences of characters; a         *)
(* function name (sin, cos, ln, ...) is one character of the alphabet.     *)
(* The symbolic-algebra library the code delegates to (math.parse,         *)
(* math.compile/evaluate, math.simplify, math.derivative) is modelled in   *)
(* the section "adapter": a parser with the library's operator             *)
(* precedences, an evaluator over exact rationals with the IEEE special    *)
(* values NaN and +/-Infinity, a symbolic differentiator and a simplifier  *)
(* that drops parentheses and cancels syntactically equal factors.         *)
(*                                                                         *)
(* call is the call in progress or last returned, ret the object it        *)
(* returned, derivativeCache the Map of the second engine (from cache keys *)
(* to the objects stored), cacheHit whether the last call of the second    *)
(* calculateDerivative returned from its cache.  component holds the refs   *)
(* of the mounted calculator component (DerivativesCalculator or           *)
(* LimitsCalculator), timers the number of setTimeout callbacks scheduled  *)
(* by calculate() that have not run yet.                                   *)
(***************************************************************************)
EXTENDS Integers, Sequences, FiniteSets, TLC

VARIABLES call, ret, derivativeCache, cacheHit, component, timers

vars == <<call, ret, derivativeCache, cacheHit, component, timers>>

(***************************************************************************)
(* Bounds of the model.                                                    *)
(***************************************************************************)
\* largest finite point at which a limit is asked for
MaxPoint == 5
\* largest absolute coefficient of the polynomials of the limits at infinity
MaxCoef == 2
\* largest numerator or denominator the evaluator represents exactly
MaxMagnitude == 1000000000

(***************************************************************************)
(* Strings.                                                                *)
(***************************************************************************)
Digits == {"0", "1", "2", "3", "4", "5", "6", "7", "8", "9"}

DigitVal(c) ==
  CASE c = "0" -> 0 [] c = "1" -> 1 [] c = "2" -> 2 [] c = "3" -> 3
    [] c = "4" -> 4 [] c = "5" -> 5 [] c = "6" -> 6 [] c = "7" -> 7
    [] c = "8" -> 8 [] c = "9" -> 9

DigitChar(n) ==
  CASE n = 0 -> "0" [] n = 1 -> "1" [] n = 2 -> "2" [] n = 3 -> "3"
    [] n = 4 -> "4" [] n = 5 -> "5" [] n = 6 -> "6" [] n = 7 -> "7"
    [] n = 8 -> "8" [] n = 9 -> "9"

\* the names the engine and the library know as functions
FnNames == {"sin", "cos", "tan", "log", "ln", "exp", "sqrt", "sec"}

\* the symbols of the expressions: the variable, the dependent symbol, and
\* the placeholders the implicit engines write for y and y'
SymNames == {"x", "y", "yp", "Y", "YP"}

Abs(n) == IF n < 0 THEN -n ELSE n

RECURSIVE NatStr(_)
\* `${n}` for a natural number n
NatStr(n) == IF n < 10 THEN <<DigitChar(n)>> ELSE NatStr(n \div 10) \o <<DigitChar(n % 10)>>

\* `${n}` for an integer n
IntStr(n) == IF n < 0 THEN <<"-">> \o NatStr(-n) ELSE NatStr(n)

SubStr(s, i, j) == IF i > j THEN <<>> ELSE SubSeq(s, i, j)

RECURSIVE TrimLeft(_)
TrimLeft(s) == IF s # <<>> /\ Head(s) = " " THEN TrimLeft(Tail(s)) ELSE s

RECURSIVE TrimRight(_)
TrimRight(s) ==
  IF s # <<>> /\ s[Len(s)] = " " THEN TrimRight(SubStr(s, 1, Len(s) - 1)) ELSE s

\* String.prototype.trim
Trim(s) == TrimRight(TrimLeft(s))

\* s.replace(/\s+/g, "")
NoSpace(s) == SelectSeq(s, LAMBDA c : c # " ")

\* the letters of a name that is one character of the alphabet
Letters(f) ==
  CASE f = "sin" -> {"s", "i", "n"} [] f = "cos" -> {"c", "o", "s"}
    [] f = "tan" -> {"t", "a", "n"} [] f = "log" -> {"l", "o", "g"}
    [] f = "ln" -> {"l", "n"} [] f = "exp" -> {"e", "x", "p"}
    [] f = "sqrt" -> {"s", "q", "r", "t"} [] f = "sec" -> {"s", "e", "c"}
    [] f = "yp" -> {"y", "p"}
    [] f = "YP" -> {"Y", "P"}
    [] OTHER -> {f}

\* s.includes(c) for a one-character c
Includes(s, c) == \E i \in 1..Len(s) : c \in Letters(s[i])

\* s.startsWith(c) for a one-character c
StartsWith(s, c) == s # <<>> /\ s[1] = c

RECURSIVE SplitOn(_, _)
\* s.split(c) for a one-character separator c
SplitOn(s, c) ==
  IF \A k \in 1..Len(s) : s[k] # c THEN <<s>>
  ELSE LET i == CHOOSE k \in 1..Len(s) : s[k] = c /\ \A m \in 1..(k - 1) : s[m] # c
       IN  <<SubStr(s, 1, i - 1)>> \o SplitOn(SubStr(s, i + 1, Len(s)), c)

\* s.replace(/^\(|\)$/g, ""): drops one leading "(" and one trailing ")"
StripParens(s) ==
  LET a == IF s # <<>> /\ s[1] = "(" THEN Tail(s) ELSE s
  IN  IF a # <<>> /\ a[Len(a)] = ")" THEN SubStr(a, 1, Len(a) - 1) ELSE a

RECURSIVE JoinWith(_, _)
\* parts.join(sep)
JoinWith(parts, sep) ==
  IF parts = <<>> THEN <<>>
  ELSE IF Len(parts) = 1 THEN parts[1]
  ELSE parts[1] \o sep \o JoinWith(Tail(parts), sep)

RECURSIVE ConcatAll(_, _, _)
\* parts[lo] \o ... \o parts[hi]
ConcatAll(parts, lo, hi) ==
  IF lo > hi THEN <<>>
  ELSE IF lo = hi THEN parts[lo]
  ELSE ConcatAll(parts, lo, (lo + hi) \div 2) \o ConcatAll(parts, (lo + hi) \div 2 + 1, hi)

\* s.replace(/\+ -/g, "- "): two matches never overlap, so every position
\* that starts one is replaced
PlusMinusFix(s) ==
  LET n == Len(s)
      starts(i) == i >= 1 /\ i + 2 <= n /\ s[i] = "+" /\ s[i + 1] = " " /\ s[i + 2] = "-"
  IN  ConcatAll([i \in 1..n |-> IF starts(i) THEN <<"-", " ">>
                                ELSE IF starts(i - 1) \/ starts(i - 2) THEN <<>>
                                ELSE <<s[i]>>], 1, n)

(***************************************************************************)
(* Adapter: expression trees (the library's ConstantNode, SymbolNode,      *)
(* OperatorNode, ParenthesisNode, FunctionNode).                           *)
(***************************************************************************)
ErrNode == [t |-> "E"]
ConstantNode(n) == [t |-> "C", v |-> n]
SymbolNode(a) == [t |-> "S", name |-> a]
OperatorNode(o, l, r) == [t |-> "O", op |-> o, args |-> <<l, r>>]
UnaryNode(o, a) == [t |-> "O", op |-> o, args |-> <<a>>]
ParenthesisNode(a) == [t |-> "P", args |-> <<a>>]
FunctionNode(f, a) == [t |-> "F", fn |-> f, args |-> <<a>>]

IsErr(n) == n.t = "E"

\* the parenthesis depth after position i of s, d being the one before it
DepthAfter(s, i, d) == IF s[i] = "(" THEN d + 1 ELSE IF s[i] = ")" THEN d - 1 ELSE d

RECURSIVE DepthsIn(_, _, _, _)
\* the parenthesis depths before the positions lo..hi of s, d being the one
\* before lo
DepthsIn(s, lo, hi, d) ==
  IF lo > hi THEN <<>>
  ELSE IF lo = hi THEN <<d>>
  ELSE LET mid == (lo + hi) \div 2
           left == DepthsIn(s, lo, mid, d)
       IN  left \o DepthsIn(s, mid + 1, hi, DepthAfter(s, mid, left[Len(left)]))

\* the parenthesis depth before each position of s, and after the last
Depths(s) == DepthsIn(s, 1, Len(s) + 1, 0)

Balanced(s) ==
  LET d == Depths(s) IN d[Len(s) + 1] = 0 /\ \A i \in 1..Len(s) : d[i + 1] >= 0

\* a character that can end an operand
EndsOperand(c) == c \in Digits \/ c \in SymNames \/ c \in {")", "'"}

SetMax(S) == CHOOSE m \in S : \A k \in S : k <= m
SetMin(S) == CHOOSE m \in S : \A k \in S : m <= k

RECURSIVE DigitsVal(_)
DigitsVal(s) ==
  IF Len(s) = 1 THEN DigitVal(s[1])
  ELSE 10 * DigitsVal(SubStr(s, 1, Len(s) - 1)) + DigitVal(s[Len(s)])

RECURSIVE ParseNoSpace(_)
\* math.parse on a string without blanks: binary + and - bind weakest, then
\* * and /, then unary minus and plus, then ^ (right-associative), then the
\* postfix transpose mark ' that the implicit engine writes after y
ParseNoSpace(s) ==
  IF s = <<>> \/ ~Balanced(s) THEN ErrNode
  ELSE
    LET d == Depths(s)
        n == Len(s)
        adds == {i \in 2..n : s[i] \in {"+", "-"} /\ d[i] = 0 /\ EndsOperand(s[i - 1])}
        muls == {i \in 1..n : s[i] \in {"*", "/"} /\ d[i] = 0}
        pows == {i \in 1..n : s[i] = "^" /\ d[i] = 0}
        Bin(i) ==
          LET l == ParseNoSpace(SubStr(s, 1, i - 1))
              r == ParseNoSpace(SubStr(s, i + 1, n))
          IN  IF IsErr(l) \/ IsErr(r) THEN ErrNode ELSE OperatorNode(s[i], l, r)
        Inner(k) ==
          LET a == ParseNoSpace(SubStr(s, k, n - 1))
          IN  a
    IN  IF adds # {} THEN Bin(SetMax(adds))
        ELSE IF muls # {} THEN Bin(SetMax(muls))
        ELSE IF s[1] \in {"-", "+"}
          THEN LET a == ParseNoSpace(Tail(s))
               IN  IF IsErr(a) THEN ErrNode ELSE UnaryNode(s[1], a)
        ELSE IF pows # {} THEN Bin(SetMin(pows))
        ELSE IF n >= 2 /\ s[n] = "'"
          THEN LET a == ParseNoSpace(SubStr(s, 1, n - 1))
               IN  IF IsErr(a) THEN ErrNode ELSE UnaryNode("'", a)
        ELSE IF s[1] = "(" /\ s[n] = ")"
          THEN LET a == Inner(2) IN IF IsErr(a) THEN ErrNode ELSE ParenthesisNode(a)
        ELSE IF n >= 3 /\ s[1] \in FnNames /\ s[2] = "(" /\ s[n] = ")"
          THEN LET a == Inner(3) IN IF IsErr(a) THEN ErrNode ELSE FunctionNode(s[1], a)
        ELSE IF \A i \in 1..n : s[i] \in Digits THEN ConstantNode(DigitsVal(s))
        ELSE IF n = 1 /\ s[1] \in SymNames THEN SymbolNode(s[1])
        ELSE ErrNode

\* math.parse: blanks between the tokens are skipped
Parse(s) == ParseNoSpace(NoSpace(s))

(***************************************************************************)
(* Adapter: numbers.  A value is an exact rational, NaN, +/-Infinity, or   *)
(* Big: a finite number the model does not represent (its numerator or     *)
(* denominator exceeds MaxMagnitude, or it is irrational).  Throw is the   *)
(* outcome of an evaluation that raises.  The sign of zero is not kept.    *)
(***************************************************************************)
NaN == [k |-> "nan"]
Infinity(s) == [k |-> "inf", s |-> s]
Big == [k |-> "big"]
Throw == [k |-> "throw"]

RECURSIVE Gcd(_, _)
Gcd(a, b) == IF b = 0 THEN a ELSE Gcd(b, a % b)

\* the rational n/d in lowest terms, d # 0
Rat(n, d) ==
  LET g == Gcd(Abs(n), Abs(d))
  IN  [k |-> "num", n |-> (IF d < 0 THEN -1 ELSE 1) * (n \div g), d |-> Abs(d) \div g]

Num(n) == [k |-> "num", n |-> n, d |-> 1]

IsNum(v) == v.k = "num"
IsZero(v) == v.k = "num" /\ v.n = 0
Sign(v) == IF v.k = "inf" THEN v.s ELSE IF v.n < 0 THEN -1 ELSE IF v.n > 0 THEN 1 ELSE 0

\* the product a * b is representable
Fits(a, b) == a = 0 \/ b = 0 \/ Abs(a) <= MaxMagnitude \div Abs(b)

VNeg(a) ==
  CASE a.k = "num" -> Rat(-a.n, a.d)
    [] a.k = "inf" -> Infinity(-a.s)
    [] OTHER -> a

VAdd(a, b) ==
  IF a.k = "throw" \/ b.k = "throw" THEN Throw
  ELSE IF a.k = "nan" \/ b.k = "nan" THEN NaN
  ELSE IF a.k = "big" \/ b.k = "big" THEN Big
  ELSE IF a.k = "inf" /\ b.k = "inf" THEN (IF a.s = b.s THEN a ELSE NaN)
  ELSE IF a.k = "inf" THEN a
  ELSE IF b.k = "inf" THEN b
  ELSE IF Fits(a.n, b.d) /\ Fits(b.n, a.d) /\ Fits(a.d, b.d)
          /\ Abs(a.n * b.d + b.n * a.d) <= MaxMagnitude
       THEN Rat(a.n * b.d + b.n * a.d, a.d * b.d)
       ELSE Big

VSub(a, b) == VAdd(a, VNeg(b))

VMul(a, b) ==
  IF a.k = "throw" \/ b.k = "throw" THEN Throw
  ELSE IF a.k = "nan" \/ b.k = "nan" THEN NaN
  ELSE IF a.k = "big" \/ b.k = "big" THEN Big
  ELSE IF a.k = "inf" \/ b.k = "inf"
       THEN (IF IsZero(a) \/ IsZero(b) THEN NaN ELSE Infinity(Sign(a) * Sign(b)))
  ELSE IF Fits(a.n, b.n) /\ Fits(a.d, b.d) THEN Rat(a.n * b.n, a.d * b.d)
  ELSE Big

VDiv(a, b) ==
  IF a.k = "throw" \/ b.k = "throw" THEN Throw
  ELSE IF a.k = "nan" \/ b.k = "nan" THEN NaN
  ELSE IF a.k = "big" \/ b.k = "big" THEN Big
  ELSE IF a.k = "inf" /\ b.k = "inf" THEN NaN
  ELSE IF a.k = "inf" THEN Infinity(IF Sign(b) < 0 THEN -a.s ELSE a.s)
  ELSE IF b.k = "inf" THEN Num(0)
  ELSE IF b.n = 0 THEN (IF a.n = 0 THEN NaN ELSE Infinity(Sign(a)))
  ELSE IF Fits(a.n, b.d) /\ Fits(a.d, b.n) THEN Rat(a.n * b.d, a.d * b.n)
  ELSE Big

RECURSIVE NatPow(_, _)
\* a^e for a natural number e
NatPow(a, e) == IF e = 0 THEN Num(1) ELSE VMul(a, NatPow(a, e - 1))

\* a^b; an exponent that is not a small integer gives a number the model
\* does not represent
VPow(a, b) ==
  IF a.k = "throw" \/ b.k = "throw" THEN Throw
  ELSE IF IsZero(b) THEN Num(1)
  ELSE IF a.k = "nan" \/ b.k = "nan" THEN NaN
  ELSE IF a.k = "big" \/ b.k # "num" THEN Big
  ELSE IF b.d # 1 \/ Abs(b.n) > 32 THEN Big
  ELSE IF b.n > 0 THEN NatPow(a, b.n)
  ELSE VDiv(Num(1), NatPow(a, -b.n))

RECURSIVE ISqrt(_, _)
\* the largest r with r*r <= n, searched upward from r
ISqrt(n, r) == IF (r + 1) * (r + 1) > n THEN r ELSE ISqrt(n, r + 1)

IsSquare(n) == n >= 0 /\ n <= 10000 /\ ISqrt(n, 0) * ISqrt(n, 0) = n

\* the library's functions on numbers: the exact values are kept, every
\* other value is a finite number the model does not represent; ln is not a
\* function of the library, so calling it raises
ApplyFn(f, v) ==
  IF v.k = "throw" \/ f = "ln" THEN Throw
  ELSE IF v.k = "nan" THEN NaN
  ELSE IF v.k # "num" THEN Big
  ELSE IF f \in {"sin", "tan"} /\ v.n = 0 THEN Num(0)
  ELSE IF f \in {"cos", "exp", "sec"} /\ v.n = 0 THEN Num(1)
  ELSE IF f = "log" /\ v.n = v.d THEN Num(0)
  ELSE IF f = "log" /\ v.n = 0 THEN Infinity(-1)
  ELSE IF f = "sqrt" /\ IsSquare(v.n) /\ IsSquare(v.d)
       THEN Rat(ISqrt(v.n, 0), ISqrt(v.d, 0))
  ELSE Big

RECURSIVE Eval(_, _)
\* node.evaluate(scope): scope maps the symbols it defines to numbers, an
\* undefined symbol raises
Eval(node, scope) ==
  CASE node.t = "C" -> Num(node.v)
    [] node.t = "S" -> IF node.name \in DOMAIN scope THEN scope[node.name] ELSE Throw
    [] node.t = "P" -> Eval(node.args[1], scope)
    [] node.t = "F" -> ApplyFn(node.fn, Eval(node.args[1], scope))
    [] node.t = "O" /\ Len(node.args) = 1 ->
         IF node.op = "-" THEN
           LET v == Eval(node.args[1], scope) IN IF v.k = "throw" THEN Throw ELSE VNeg(v)
         ELSE Eval(node.args[1], scope)
    [] node.t = "O" /\ Len(node.args) = 2 ->
         LET l == Eval(node.args[1], scope)
             r == Eval(node.args[2], scope)
         IN  (CASE node.op = "+" -> VAdd(l, r)
                [] node.op = "-" -> VSub(l, r)
                [] node.op = "*" -> VMul(l, r)
                [] node.op = "/" -> VDiv(l, r)
                [] node.op = "^" -> VPow(l, r))
    [] OTHER -> Throw

\* isFinite(v) && !isNaN(v)
IsFiniteNumber(v) == v.k \in {"num", "big"}

(***************************************************************************)
(* Adapter: printing, differentiation, simplification.                     *)
(***************************************************************************)
\* the binding strength of a node's top operator
Prec(node) ==
  IF node.t # "O" THEN 5
  ELSE IF Len(node.args) = 1 THEN (IF node.op = "'" THEN 5 ELSE 3)
  ELSE IF node.op \in {"+", "-"} THEN 1
  ELSE IF node.op \in {"*", "/"} THEN 2
  ELSE 4

RECURSIVE ToStr(_)
\* node.toString(): binary operators are printed with a blank on each side,
\* and an operand is parenthesised when its operator binds weaker
ToStr(node) ==
  LET Wrap(c, need) == IF need THEN <<"(">> \o ToStr(c) \o <<")">> ELSE ToStr(c)
  IN  CASE node.t = "C" -> IntStr(node.v)
        [] node.t = "S" -> <<node.name>>
        [] node.t = "P" -> <<"(">> \o ToStr(node.args[1]) \o <<")">>
        [] node.t = "F" -> <<node.fn, "(">> \o ToStr(node.args[1]) \o <<")">>
        [] node.t = "O" /\ Len(node.args) = 1 ->
             IF node.op = "'" THEN Wrap(node.args[1], Prec(node.args[1]) < 5) \o <<"'">>
             ELSE <<node.op>> \o Wrap(node.args[1], Prec(node.args[1]) < 3)
        [] node.t = "O" /\ Len(node.args) = 2 ->
             LET l == node.args[1]
                 r == node.args[2]
                 p == Prec(node)
             IN  Wrap(l, Prec(l) < p \/ (node.op = "^" /\ Prec(l) <= 4))
                   \o <<" ", node.op, " ">>
                   \o Wrap(r, Prec(r) < p \/ (Prec(r) = p /\ node.op \in {"-", "/"}))
        [] OTHER -> <<"?">>

RECURSIVE HasSymbol(_, _)
\* the symbol occurs in the tree
HasSymbol(node, a) ==
  CASE node.t = "S" -> node.name = a
    [] node.t \in {"C", "E"} -> FALSE
    [] OTHER -> \E i \in 1..Len(node.args) : HasSymbol(node.args[i], a)

RECURSIVE HasFn(_, _)
\* the function is called in the tree
HasFn(node, f) ==
  CASE node.t = "F" -> node.fn = f \/ HasFn(node.args[1], f)
    [] node.t \in {"C", "S", "E"} -> FALSE
    [] OTHER -> \E i \in 1..Len(node.args) : HasFn(node.args[i], f)

Zero == ConstantNode(0)
One == ConstantNode(1)

\* sums, products and quotients without the terms 0 and the factors 1
AddN(a, b) == IF a = Zero THEN b ELSE IF b = Zero THEN a ELSE OperatorNode("+", a, b)
SubN(a, b) ==
  IF b = Zero THEN a ELSE IF a = Zero THEN UnaryNode("-", b) ELSE OperatorNode("-", a, b)
MulN(a, b) ==
  IF a = Zero \/ b = Zero THEN Zero
  ELSE IF a = One THEN b ELSE IF b = One THEN a ELSE OperatorNode("*", a, b)
DivN(a, b) == IF a = Zero THEN Zero ELSE OperatorNode("/", a, b)

RECURSIVE Deriv(_, _)
\* the derivative of a tree with respect to the symbol a; any other symbol
\* is a constant
Deriv(node, a) ==
  IF ~HasSymbol(node, a) THEN Zero
  ELSE
  CASE node.t = "S" -> One
    [] node.t = "P" -> Deriv(node.args[1], a)
    [] node.t = "O" /\ Len(node.args) = 1 ->
         IF node.op = "-" THEN UnaryNode("-", Deriv(node.args[1], a))
         ELSE Deriv(node.args[1], a)
    [] node.t = "O" /\ Len(node.args) = 2 ->
         LET l == node.args[1]
             r == node.args[2]
             dl == Deriv(l, a)
             dr == Deriv(r, a)
         IN  (CASE node.op = "+" -> AddN(dl, dr)
               [] node.op = "-" -> SubN(dl, dr)
               [] node.op = "*" -> AddN(MulN(dl, r), MulN(l, dr))
               [] node.op = "/" ->
                    IF ~HasSymbol(r, a) THEN DivN(dl, r)
                    ELSE DivN(SubN(MulN(dl, r), MulN(l, dr)),
                              OperatorNode("^", r, ConstantNode(2)))
               [] node.op = "^" ->
                    IF ~HasSymbol(r, a)
                    THEN MulN(MulN(r, OperatorNode("^", l, OperatorNode("-", r, One))), dl)
                    ELSE MulN(node,
                              AddN(MulN(dr, FunctionNode("log", l)),
                                   MulN(r, DivN(dl, l)))))
    [] node.t = "F" ->
         LET u == node.args[1]
             du == Deriv(u, a)
         IN  (CASE node.fn = "sin" -> MulN(FunctionNode("cos", u), du)
               [] node.fn = "cos" -> MulN(UnaryNode("-", FunctionNode("sin", u)), du)
               [] node.fn = "tan" ->
                    MulN(OperatorNode("^", FunctionNode("sec", u), ConstantNode(2)), du)
               [] node.fn = "sec" ->
                    MulN(MulN(FunctionNode("sec", u), FunctionNode("tan", u)), du)
               [] node.fn = "log" -> DivN(du, u)
               [] node.fn = "exp" -> MulN(node, du)
               [] node.fn = "sqrt" ->
                    DivN(du, OperatorNode("*", ConstantNode(2), node))
               [] OTHER -> ErrNode)
    [] OTHER -> ErrNode

RECURSIVE HasErr(_)
HasErr(node) ==
  CASE node.t = "E" -> TRUE
    [] node.t \in {"C", "S"} -> FALSE
    [] OTHER -> \E i \in 1..Len(node.args) : HasErr(node.args[i])


RECURSIVE Factors(_)
\* the factors of a product, each a base with an integer exponent
Factors(node) ==
  CASE node.t = "O" /\ Len(node.args) = 2 /\ node.op = "*" ->
         Factors(node.args[1]) \o Factors(node.args[2])
    [] node.t = "O" /\ Len(node.args) = 2 /\ node.op = "^" /\ node.args[2].t = "C" ->
         <<[b |-> node.args[1], e |-> node.args[2].v]>>
    [] OTHER -> <<[b |-> node, e |-> 1]>>

RECURSIVE CancelOne(_, _)
\* the factors fs with the factor g divided out: the exponent of the first
\* factor with g's base is lowered, (found, factors)
CancelOne(fs, g) ==
  IF fs = <<>> THEN [found |-> FALSE, fs |-> <<>>]
  ELSE IF fs[1].b = g.b
       THEN [found |-> TRUE, fs |-> <<[b |-> g.b, e |-> fs[1].e - g.e]>> \o Tail(fs)]
       ELSE LET rest == CancelOne(Tail(fs), g)
            IN  [found |-> rest.found, fs |-> <<fs[1]>> \o rest.fs]

RECURSIVE CancelAll(_, _, _)
\* numerator factors and denominator factors with the common bases cancelled
CancelAll(fs, gs, kept) ==
  IF gs = <<>> THEN [num |-> fs, den |-> kept]
  ELSE LET c == CancelOne(fs, gs[1])
       IN  IF c.found THEN CancelAll(c.fs, Tail(gs), kept)
           ELSE CancelAll(fs, Tail(gs), kept \o <<gs[1]>>)

FactorNode(f) ==
  IF f.e = 1 THEN f.b ELSE OperatorNode("^", f.b, ConstantNode(f.e))

RECURSIVE ProductOf(_)
ProductOf(fs) ==
  IF fs = <<>> THEN One
  ELSE IF Len(fs) = 1 THEN FactorNode(fs[1])
  ELSE OperatorNode("*", ProductOf(SubStr(fs, 1, Len(fs) - 1)), FactorNode(fs[Len(fs)]))

\* a quotient with the common factors of numerator and denominator cancelled
CancelQuotient(num, den) ==
  LET quotient(up, down) ==
        IF down = <<>> THEN ProductOf(up)
        ELSE OperatorNode("/", ProductOf(up), ProductOf(down))
      inverted(fs) == [i \in 1..Len(fs) |-> [b |-> fs[i].b, e |-> -fs[i].e]]
      split(c) ==
        quotient(SelectSeq(c.num, LAMBDA f : f.e > 0),
                 SelectSeq(c.den, LAMBDA f : f.e > 0)
                   \o inverted(SelectSeq(c.num, LAMBDA f : f.e < 0)))
  IN  split(CancelAll(Factors(num), Factors(den), <<>>))

\* one rewriting step at the root of a tree whose operands are simplified:
\* the arithmetic of two constants, the neutral elements, and cancellation
SimplifyRoot(node) ==
  IF node.t # "O" \/ Len(node.args) # 2 THEN node
  ELSE
    LET l == node.args[1]
        r == node.args[2]
        cc == l.t = "C" /\ r.t = "C"
    IN  CASE node.op = "+" ->
               IF cc /\ l.v + r.v <= MaxMagnitude THEN ConstantNode(l.v + r.v)
               ELSE IF l = Zero THEN r ELSE IF r = Zero THEN l ELSE node
          [] node.op = "-" ->
               IF cc /\ l.v >= r.v THEN ConstantNode(l.v - r.v)
               ELSE IF cc THEN UnaryNode("-", ConstantNode(r.v - l.v))
               ELSE IF r = Zero THEN l
               ELSE IF l = Zero THEN UnaryNode("-", r)
               ELSE IF l = r THEN Zero
               ELSE node
          [] node.op = "*" ->
               IF cc /\ Fits(l.v, r.v) THEN ConstantNode(l.v * r.v)
               ELSE IF l = Zero \/ r = Zero THEN Zero
               ELSE IF l = One THEN r ELSE IF r = One THEN l ELSE node
          [] node.op = "/" ->
               IF r = One THEN l
               ELSE IF cc /\ r.v # 0 /\ l.v % r.v = 0 THEN ConstantNode(l.v \div r.v)
               ELSE IF cc THEN node
               ELSE CancelQuotient(l, r)
          [] node.op = "^" ->
               IF r = One THEN l
               ELSE IF r = Zero THEN One
               ELSE node
          [] OTHER -> node

RECURSIVE Simplify(_)
\* math.simplify on a tree: parentheses are dropped, the operands are
\* simplified, then the root
Simplify(node) ==
  CASE node.t = "P" -> Simplify(node.args[1])
    [] node.t = "F" -> FunctionNode(node.fn, Simplify(node.args[1]))
    [] node.t = "O" /\ Len(node.args) = 1 ->
         LET u == Simplify(node.args[1])
         IN  IF node.op = "+" THEN u
             ELSE IF node.op = "'" THEN UnaryNode("'", u)
             ELSE IF u.t = "O" /\ Len(u.args) = 1 /\ u.op = "-" THEN u.args[1]
             ELSE IF u = Zero THEN Zero
             ELSE UnaryNode("-", u)
    [] node.t = "O" /\ Len(node.args) = 2 ->
         SimplifyRoot(OperatorNode(node.op, Simplify(node.args[1]), Simplify(node.args[2])))
    [] OTHER -> node

\* math.simplify on a parsed string
SimplifyParsed(p) == IF IsErr(p) THEN ErrNode ELSE Simplify(p)

\* math.simplify(string): ErrNode when the string does not parse
MathSimplify(s) == SimplifyParsed(Parse(s))

\* the derivative of a parsed string, simplified
DeriveParsed(p, a) == IF IsErr(p) THEN ErrNode ELSE SimplifyParsed(Deriv(p, a))

\* math.derivative(string, variable): the simplified derivative as a tree,
\* or ErrNode when it raises: the variable is not the name of a symbol, the
\* string does not parse, or a function the library cannot differentiate
\* (ln) is applied to the variable
MathDerivative(s, a) == IF a \notin SymNames THEN ErrNode ELSE DeriveParsed(Parse(s), a)

(***************************************************************************)
(* Results of a call that may raise: Ok(v) or Raised.                      *)
(***************************************************************************)
Ok(v) == [ok |-> TRUE, v |-> v]
Raised == [ok |-> FALSE]

\* node.toString() of the tree an adapter call returned, Raised when it raised
NodeString(n) == IF IsErr(n) THEN Raised ELSE Ok(ToStr(n))

\* math.derivative(s, variable).toString()
DerivativeString(s, variable) == NodeString(MathDerivative(s, variable))

\* math.simplify(s).toString()
SimplifyString(s) == NodeString(MathSimplify(s))

(***************************************************************************)
(* Steps: the title and the flags of a step; the texts are not kept.       *)
(***************************************************************************)
\* What the content of a step says.  Of the text only this is kept: a
\* narration, a result, the equation left with y' not isolated, or, for an
\* error step, the fixed description followed by error.message.
Step(title) == [title |-> title, final |-> FALSE, error |-> FALSE, content |-> "narration"]
FinalStep(title) == [title |-> title, final |-> TRUE, error |-> FALSE, content |-> "result"]
NotIsolatedStep(title) ==
  [title |-> title, final |-> TRUE, error |-> FALSE, content |-> "not isolated"]
\* the final step of the second calculateImplicitDerivative when
\* solveForYPrime gave no text: its content is the derived equation
EquationStep(title) ==
  [title |-> title, final |-> TRUE, error |-> FALSE, content |-> "derived equation"]

ErrorStep(title, message) ==
  [title |-> title, final |-> FALSE, error |-> TRUE,
   content |-> [description |-> TRUE, message |-> message]]

\* error.message.  The library's messages name a character position, a
\* symbol, a function or an argument type; the engine's RangeError and
\* ReferenceError have fixed messages; deriveSideWithMathJS throws an Error
\* whose message ends with the side it could not derive.
LibraryMessage == [text |-> "library", expression |-> FALSE]
RangeErrorMessage == [text |-> "Maximum call stack size exceeded", expression |-> FALSE]
ReferenceErrorMessage == [text |-> "radicalLimit is not defined", expression |-> FALSE]
NotDerivedMessage == [text |-> "No se pudo derivar: ", expression |-> TRUE]

RECURSIVE Dedup(_)
\* [...new Set(rules)]
Dedup(rules) ==
  IF rules = <<>> THEN <<>>
  ELSE LET init == Dedup(SubStr(rules, 1, Len(rules) - 1))
           last == rules[Len(rules)]
       IN  IF \E i \in 1..Len(init) : init[i] = last THEN init ELSE init \o <<last>>

(***************************************************************************)
(* Derivative engine: utilities.                                           *)
(***************************************************************************)
\* the positions of S in increasing order
Ascending(S) ==
  [k \in 1..Cardinality(S) |-> CHOOSE p \in S : Cardinality({q \in S : q < p}) = k - 1]

\* splitTerms.  The loop cuts the expression at every + and - after the
\* first character that is at parenthesis level 0, a - opening the next
\* term; parenLevel at such a character is the depth before it.
splitTerms(expression) ==
  LET n == Len(expression)
      parenLevel == Depths(expression)
      cuts == Ascending({i \in 2..n : expression[i] \in {"+", "-"} /\ parenLevel[i] = 0})
      current(k) ==
        (IF k > 1 /\ expression[cuts[k - 1]] = "-" THEN <<"-">> ELSE <<>>)
          \o SubStr(expression, IF k = 1 THEN 1 ELSE cuts[k - 1] + 1,
                    IF k > Len(cuts) THEN n ELSE cuts[k] - 1)
  IN  SelectSeq([k \in 1..(Len(cuts) + 1) |-> Trim(current(k))], LAMBDA t : Len(t) > 0)

\* splitFactors.  The loop cuts the expression at every * at parenthesis
\* level 0.
splitFactors(expression) ==
  LET n == Len(expression)
      parenLevel == Depths(expression)
      cuts == Ascending({i \in 1..n : expression[i] = "*" /\ parenLevel[i] = 0})
      current(k) ==
        SubStr(expression, IF k = 1 THEN 1 ELSE cuts[k - 1] + 1,
               IF k > Len(cuts) THEN n ELSE cuts[k] - 1)
  IN  SelectSeq([k \in 1..(Len(cuts) + 1) |-> Trim(current(k))], LAMBDA f : Len(f) > 0)

\* the function names the engine's patterns know
ChainNames == {"sin", "cos", "tan", "log", "ln", "exp", "sqrt"}

\* analyzeExpression: the tag of the trimmed string
analyzeExpression(expression, variable) ==
  LET expr == Trim(expression)
  IN  IF Includes(expr, "+") \/ (Includes(expr, "-") /\ ~StartsWith(expr, "-")) THEN "sum"
      ELSE IF Includes(expr, "*") /\ ~Includes(expr, "/") /\ ~Includes(expr, "^")
        THEN "product"
      ELSE IF Includes(expr, "/") THEN "quotient"
      ELSE IF Includes(expr, "^") THEN "power"
      ELSE IF \E i \in 1..Len(expr) : expr[i] \in ChainNames THEN "chain"
      ELSE "simple"

(***************************************************************************)
(* Derivative engine: the rule handlers.  A handler is given the steps and *)
(* rules collected so far and returns them extended, with r the string it  *)
(* returns or Raised.  Titles are written without accents.                 *)
(***************************************************************************)
Handled(r, steps, rules) == [r |-> r, steps |-> steps, rules |-> rules]

RECURSIVE deriveTermsFrom(_, _, _, _)
\* terms.map of deriveSumOrDifference: stops at the first term that raises
deriveTermsFrom(terms, variable, derivedTerms, steps) ==
  LET next(termDerivative) ==
        IF ~termDerivative.ok THEN [r |-> Raised, steps |-> steps]
        ELSE deriveTermsFrom(Tail(terms), variable,
                             derivedTerms \o <<termDerivative.v>>,
                             steps \o <<Step("Derivada de termino")>>)
  IN  IF terms = <<>> THEN [r |-> Ok(derivedTerms), steps |-> steps]
      ELSE next(DerivativeString(Head(terms), variable))

deriveSumOrDifference(expression, variable, steps, rules) ==
  LET joined(m) ==
        IF ~m.r.ok THEN Handled(Raised, m.steps, rules)
        ELSE Handled(Ok(PlusMinusFix(JoinWith(m.r.v, <<" ", "+", " ">>))), m.steps, rules)
  IN  joined(deriveTermsFrom(splitTerms(expression), variable, <<>>,
                             steps \o <<Step("Separacion de terminos")>>))

deriveProduct(expression, variable, steps, rules) ==
  LET factors == splitFactors(expression)
      formula(f, g, fPrime, gPrime) ==
        IF ~fPrime.ok \/ ~gPrime.ok
        THEN Handled(Raised, steps \o <<Step("Identificacion de factores")>>, rules)
        ELSE Handled(Ok(<<"(">> \o fPrime.v \o <<")", " ", "*", " ", "(">> \o g
                        \o <<")", " ", "+", " ", "(">> \o f
                        \o <<")", " ", "*", " ", "(">> \o gPrime.v \o <<")">>),
                     steps \o <<Step("Identificacion de factores"),
                                Step("Derivadas de los factores"),
                                Step("Aplicacion de la formula")>>,
                     rules)
  IN  IF Len(factors) = 2
      THEN formula(factors[1], factors[2], DerivativeString(factors[1], variable),
                   DerivativeString(factors[2], variable))
      ELSE Handled(DerivativeString(expression, variable), steps, rules)

deriveQuotient(expression, variable, steps, rules) ==
  LET parts == SplitOn(expression, "/")
      f == StripParens(Trim(parts[1]))
      g == StripParens(Trim(parts[2]))
      formula(fPrime, gPrime) ==
        IF ~fPrime.ok \/ ~gPrime.ok
        THEN Handled(Raised,
                     steps \o <<Step("Identificacion de numerador y denominador")>>, rules)
        ELSE Handled(Ok(<<"(", "(">> \o fPrime.v \o <<")", " ", "*", " ", "(">> \o g
                        \o <<")", " ", "-", " ", "(">> \o f
                        \o <<")", " ", "*", " ", "(">> \o gPrime.v
                        \o <<")", ")", " ", "/", " ", "(", "(">> \o g
                        \o <<")", "^", "2", ")">>),
                     steps \o <<Step("Identificacion de numerador y denominador"),
                                Step("Derivadas del numerador y denominador"),
                                Step("Aplicacion de la formula")>>,
                     rules)
  IN  IF Len(parts) = 2
      THEN formula(DerivativeString(f, variable), DerivativeString(g, variable))
      ELSE Handled(DerivativeString(expression, variable), steps, rules)

\* the positions where /(sin|cos|tan|log|ln|exp|sqrt)\((.+)\)/ can start
ChainStarts(expression) ==
  {i \in 1..Len(expression) :
     /\ expression[i] \in ChainNames
     /\ i + 1 <= Len(expression) /\ expression[i + 1] = "("
     /\ \E j \in (i + 3)..Len(expression) : expression[j] = ")"}

\* the derivative of the outer function and the rule it records
outerDerivativeOf(outerFunc, innerFunc) ==
  CASE outerFunc = "sin" -> <<"cos", "(">> \o innerFunc \o <<")">>
    [] outerFunc = "cos" -> <<"-", "sin", "(">> \o innerFunc \o <<")">>
    [] outerFunc = "tan" -> <<"sec", "(">> \o innerFunc \o <<")", "^", "2">>
    [] outerFunc \in {"ln", "log"} -> <<"1", "/", "(">> \o innerFunc \o <<")">>
    [] outerFunc = "exp" -> <<"exp", "(">> \o innerFunc \o <<")">>
    [] outerFunc = "sqrt" -> <<"1", "/", "(", "2", "*", "sqrt", "(">> \o innerFunc \o <<")", ")">>

outerRuleOf(outerFunc) ==
  CASE outerFunc = "sin" -> "Derivada de seno"
    [] outerFunc = "cos" -> "Derivada de coseno"
    [] outerFunc = "tan" -> "Derivada de tangente"
    [] outerFunc \in {"ln", "log"} -> "Derivada de logaritmo"
    [] outerFunc = "exp" -> "Derivada de exponencial"
    [] outerFunc = "sqrt" -> "Derivada de raiz cuadrada"

deriveChain(expression, variable, steps, rules) ==
  LET i == SetMin(ChainStarts(expression))
      j == SetMax({k \in 1..Len(expression) : expression[k] = ")"})
      outerFunc == expression[i]
      innerFunc == SubStr(expression, i + 2, j - 1)
      formula(innerDerivative) ==
        IF ~innerDerivative.ok
        THEN Handled(Raised, steps \o <<Step("Identificacion de funciones")>>, rules)
        ELSE Handled(Ok(<<"(">> \o outerDerivativeOf(outerFunc, innerFunc)
                        \o <<")", " ", "*", " ", "(">> \o innerDerivative.v \o <<")">>),
                     steps \o <<Step("Identificacion de funciones"),
                                Step("Derivada de la funcion interna"),
                                Step("Derivada de la funcion externa"),
                                Step("Aplicacion de la regla de la cadena")>>,
                     rules \o <<outerRuleOf(outerFunc)>>)
  IN  IF ChainStarts(expression) # {}
      THEN formula(DerivativeString(innerFunc, variable))
      ELSE Handled(DerivativeString(expression, variable), steps, rules)

\* where /(.+)\^(.+)/ puts its "^": the last one with a character on each side
PowerSplits(expression) ==
  {k \in 2..(Len(expression) - 1) : expression[k] = "^"}

derivePower(expression, variable, steps, rules) ==
  LET k == SetMax(PowerSplits(expression))
      base == Trim(SubStr(expression, 1, k - 1))
      exponent == Trim(SubStr(expression, k + 1, Len(expression)))
      matched == PowerSplits(expression) # {}
      logarithmic == matched /\ Includes(exponent, variable)
  IN  IF matched /\ base = <<variable>> /\ ~Includes(exponent, variable)
      THEN Handled(Ok(exponent \o <<" ", "*", " ", variable, "^", "(">> \o exponent
                      \o <<" ", "-", " ", "1", ")">>),
                   steps \o <<Step("Identificacion de base y exponente"),
                              Step("Aplicacion de la regla de la potencia")>>, rules)
      ELSE Handled(DerivativeString(expression, variable),
                   steps
                     \o (IF matched THEN <<Step("Identificacion de base y exponente")>>
                         ELSE <<>>)
                     \o (IF logarithmic THEN <<Step("Aplicando derivacion logaritmica")>>
                         ELSE <<>>),
                   IF logarithmic THEN rules \o <<"Derivacion logaritmica">> ELSE rules)

\* deriveWithMathJS: the record it returns, or Raised with nothing pushed
deriveWithMathJS(expression, variable, steps, rules) ==
  LET record(derivative) ==
        IF ~derivative.ok THEN Handled(Raised, steps, rules)
        ELSE Handled(derivative, steps \o <<Step("Derivacion simbolica")>>, rules)
  IN  record(DerivativeString(expression, variable))

\* the rule and the step deriveExplicit records for a tag before it
\* dispatches; the "simple" tag records neither
tagRule(type) ==
  CASE type = "sum" -> <<"Regla de la suma">>
    [] type = "product" -> <<"Regla del producto">>
    [] type = "quotient" -> <<"Regla del cociente">>
    [] type = "chain" -> <<"Regla de la cadena">>
    [] type = "power" -> <<"Regla de la potencia">>
    [] OTHER -> <<>>

tagStep(type) ==
  CASE type = "sum" -> <<Step("Aplicando regla de la suma")>>
    [] type = "product" -> <<Step("Aplicando regla del producto")>>
    [] type = "quotient" -> <<Step("Aplicando regla del cociente")>>
    [] type = "chain" -> <<Step("Aplicando regla de la cadena")>>
    [] type = "power" -> <<Step("Aplicando regla de la potencia")>>
    [] OTHER -> <<>>

\* the handler deriveExplicit dispatches to
dispatch(type, expression, variable, steps, rules) ==
  CASE type = "sum" -> deriveSumOrDifference(expression, variable, steps, rules)
    [] type = "product" -> deriveProduct(expression, variable, steps, rules)
    [] type = "quotient" -> deriveQuotient(expression, variable, steps, rules)
    [] type = "chain" -> deriveChain(expression, variable, steps, rules)
    [] type = "power" -> derivePower(expression, variable, steps, rules)
    [] OTHER -> deriveWithMathJS(expression, variable, steps, rules)

\* the end of deriveExplicit's try block without its catch block: an
\* exception of the handler or of math.simplify leaves deriveExplicit
simplifyHandledUncaught(type, h, expression, variable) ==
  LET finish(simplified) ==
        IF h.r.ok /\ type # "simple" /\ simplified.ok
        THEN Handled(simplified,
                     IF simplified.v # h.r.v THEN h.steps \o <<Step("Simplificacion")>>
                     ELSE h.steps,
                     h.rules)
        ELSE Handled(Raised, h.steps, h.rules)
  IN  finish(IF h.r.ok THEN SimplifyString(h.r.v) ELSE Raised)

\* the end of deriveExplicit's try block without math.simplify: the text of
\* the handler is returned as it is
simplifyHandledUnsimplified(type, h, expression, variable) ==
  IF h.r.ok /\ type # "simple" THEN h
  ELSE deriveWithMathJS(expression, variable, h.steps, h.rules)

\* the end of deriveExplicit's try block, from the handler's outcome h on:
\* the simplification, and the catch block's fallback to deriveWithMathJS
simplifyHandled(type, h, expression, variable) ==
  LET finish(simplified, fallback) ==
        IF h.r.ok /\ type # "simple" /\ simplified.ok
        THEN Handled(simplified,
                     IF simplified.v # h.r.v THEN h.steps \o <<Step("Simplificacion")>>
                     ELSE h.steps,
                     h.rules)
        ELSE fallback
  IN  finish(IF h.r.ok THEN SimplifyString(h.r.v) ELSE Raised,
             deriveWithMathJS(expression, variable, h.steps, h.rules))

\* deriveExplicit: one order of derivation.  The "simple" tag hands the
\* record deriveWithMathJS returns to math.simplify, which raises on it, so
\* that tag always ends in the catch block.
deriveExplicit(expression, variable, orderNum) ==
  LET type == analyzeExpression(expression, variable)
  IN  simplifyHandled(type,
                      dispatch(type, expression, variable,
                               <<Step("Analisis de la expresion")>> \o tagStep(type),
                               tagRule(type)),
                      expression, variable)

(***************************************************************************)
(* Limit engine.  A point is a number or one of the strings "infinity"     *)
(* and "-infinity"; a result is a number or null.  The sign of infinity is *)
(* written oo in the indetermination names.                                *)
(***************************************************************************)
null == [k |-> "null"]

StringPoint(s) == [k |-> "str", s |-> s]

\* point === "infinity" || point === Infinity
isPositiveInf(point) == point.k = "str" /\ point.s = "infinity"

\* one of the four infinite points
isInfinitePoint(point) == point.k = "str" /\ point.s \in {"infinity", "-infinity"}

\* Number(point), parseFloat(point): neither reads the two strings
numPointOf(point) == IF point.k = "str" THEN NaN ELSE point

\* the scope { [variable]: v }
ScopeOf(variable, v) == [a \in {variable} |-> v]

\* compiledExpr.evaluate(scope) of a string: raises when it does not parse
EvaluateString(expression, variable, v) ==
  LET evaluate(p) == IF IsErr(p) THEN Throw ELSE Eval(p, ScopeOf(variable, v))
  IN  evaluate(Parse(expression))

RECURSIVE expandAddTerms(_)
\* the summands of a tree; math.multiply(-1, node) raises on a tree, so a
\* "-" anywhere on the chain of sums raises
expandAddTerms(node) ==
  IF node.t = "O" /\ node.op = "+" /\ Len(node.args) = 2
  THEN LET l == expandAddTerms(node.args[1])
           r == expandAddTerms(node.args[2])
       IN  IF l.ok /\ r.ok THEN Ok(l.v \o r.v) ELSE Raised
  ELSE IF node.t = "O" /\ node.op = "+" THEN Raised
  ELSE IF node.t = "O" /\ node.op = "-" THEN Raised
  ELSE Ok(<<node>>)

TermInfo(degree, coeff) == [k |-> "info", degree |-> degree, coeff |-> coeff]
TermRaised == [k |-> "raise"]

RECURSIVE analyzeTerm(_, _)
\* degree and coefficient of one term, null when it is not recognised; a
\* product with an unrecognised factor raises on reading its coeff
analyzeTerm(node, variable) ==
  CASE node.t = "S" -> IF node.name = variable THEN TermInfo(1, 1) ELSE TermInfo(0, 0)
    [] node.t = "C" -> TermInfo(0, node.v)
    [] node.t = "O" /\ node.op = "*" ->
         LET l == analyzeTerm(node.args[1], variable)
             r == analyzeTerm(node.args[2], variable)
         IN  IF l.k # "info" \/ r.k # "info" THEN TermRaised
             ELSE TermInfo(l.degree + r.degree, l.coeff * r.coeff)
    [] node.t = "O" /\ node.op = "^" /\ Len(node.args) = 2
         /\ node.args[1].t = "S" /\ node.args[1].name = variable
         /\ node.args[2].t = "C" -> TermInfo(node.args[2].v, 1)
    [] OTHER -> null

RECURSIVE leadingOf(_, _, _)
\* the loop of analyzePolynomialAST: the last term of the highest degree
leadingOf(terms, variable, best) ==
  LET next(info) ==
        IF info.k = "raise" THEN TermRaised
        ELSE IF info.k = "info" /\ (best.k = "null" \/ info.degree >= best.degree)
        THEN leadingOf(Tail(terms), variable, info)
        ELSE leadingOf(Tail(terms), variable, best)
  IN  IF terms = <<>> THEN best ELSE next(analyzeTerm(Head(terms), variable))

\* degree and leading coefficient of a tree, null when no term is recognised
analyzePolynomialAST(node, variable) ==
  LET leading(terms) ==
        IF ~terms.ok THEN TermRaised ELSE leadingOf(terms.v, variable, null)
  IN  leading(expandAddTerms(Simplify(node)))


\* a variant of handleInfinityLimit that takes the direction of the point
\* into account: at -infinity the infinite limit of a quotient whose degrees
\* differ by an odd number has the opposite sign
handleInfinityLimitDirected(expression, variable, point) ==
  LET handled(title, result) ==
        [k |-> "handled",
         steps |-> <<Step("Analisis del limite al infinito"),
                     Step("Division por la potencia dominante"), Step(title)>>,
         result |-> result,
         method |-> "Cociente de polinomios (AST simbolico)"]
      towards(numInfo, denInfo) ==
        IF ~isPositiveInf(point) /\ (numInfo.degree - denInfo.degree) % 2 = 1 THEN -1 ELSE 1
      decide(numInfo, denInfo, quotient) ==
        IF numInfo.degree = denInfo.degree THEN handled("Grados iguales", quotient)
        ELSE IF numInfo.degree < denInfo.degree
        THEN handled("Grado menor en el numerador", Num(0))
        ELSE handled("Grado mayor en el numerador",
                     IF quotient.k \in {"num", "inf"} /\ Sign(quotient) >= 0
                     THEN Infinity(towards(numInfo, denInfo))
                     ELSE Infinity(0 - towards(numInfo, denInfo)))
      compare(numInfo, denInfo) ==
        IF numInfo.k = "raise" \/ denInfo.k = "raise" THEN null
        ELSE IF numInfo.k = "null" \/ denInfo.k = "null" THEN null
        ELSE decide(numInfo, denInfo, VDiv(Num(numInfo.coeff), Num(denInfo.coeff)))
      analyze(node) ==
        IF IsErr(node) THEN null
        ELSE IF ~(node.t = "O" /\ node.op = "/") THEN null
        ELSE compare(analyzePolynomialAST(node.args[1], variable),
                     analyzePolynomialAST(node.args[2], variable))
  IN  analyze(Parse(expression))

\* handleInfinityLimit: steps, result and method, or null
handleInfinityLimit(expression, variable, point) ==
  LET handled(title, result) ==
        [k |-> "handled",
         steps |-> <<Step("Analisis del limite al infinito"),
                     Step("Division por la potencia dominante"), Step(title)>>,
         result |-> result,
         method |-> "Cociente de polinomios (AST simbolico)"]
      decide(numInfo, denInfo, quotient) ==
        IF numInfo.degree = denInfo.degree THEN handled("Grados iguales", quotient)
        ELSE IF numInfo.degree < denInfo.degree
        THEN handled("Grado menor en el numerador", Num(0))
        ELSE handled("Grado mayor en el numerador",
                     IF quotient.k \in {"num", "inf"} /\ Sign(quotient) >= 0
                     THEN Infinity(1) ELSE Infinity(-1))
      compare(numInfo, denInfo) ==
        IF numInfo.k = "raise" \/ denInfo.k = "raise" THEN null
        ELSE IF numInfo.k = "null" \/ denInfo.k = "null" THEN null
        ELSE decide(numInfo, denInfo, VDiv(Num(numInfo.coeff), Num(denInfo.coeff)))
      analyze(node) ==
        IF IsErr(node) THEN null
        ELSE IF ~(node.t = "O" /\ node.op = "/") THEN null
        ELSE compare(analyzePolynomialAST(node.args[1], variable),
                     analyzePolynomialAST(node.args[2], variable))
  IN  analyze(Parse(expression))

\* const epsilon = 0.0001 of detectIndetermination
detectEpsilon == Rat(1, 10000)

\* const epsilon = 0.00001 of applyLHopitalNumerically
lhopitalEpsilon == Rat(1, 100000)

\* the test value 1000000 of the evaluations at infinity
testValue(positive) == IF positive THEN Num(1000000) ELSE Num(-1000000)

\* detectIndetermination: the name of the indetermination
detectIndetermination(expression, variable, point) ==
  LET classify(leftValue, rightValue) ==
        IF leftValue.k = "throw" \/ rightValue.k = "throw" THEN "0/0"
        ELSE IF leftValue.k = "nan" \/ rightValue.k = "nan" THEN "0/0"
        ELSE IF ~IsFiniteNumber(leftValue) /\ ~IsFiniteNumber(rightValue) THEN "oo/oo"
        ELSE "0/0"
  IN  IF isInfinitePoint(point)
      THEN IF EvaluateString(expression, variable,
                             testValue(isPositiveInf(point))).k = "throw"
           THEN "0/0" ELSE "oo/oo o oo-oo"
      ELSE classify(EvaluateString(expression, variable,
                                   VSub(numPointOf(point), detectEpsilon)),
                    EvaluateString(expression, variable,
                                   VAdd(numPointOf(point), detectEpsilon)))

\* the first position of "^2-" that /^(.+?)\^2-(.+)$/ accepts, 0 when none
diffSquaresAt(normNum) ==
  LET ks == {k \in 2..(Len(normNum) - 3) :
               normNum[k] = "^" /\ normNum[k + 1] = "2" /\ normNum[k + 2] = "-"}
  IN  IF ks = {} THEN 0 ELSE SetMin(ks)

\* /^[+-]?\d+(\.\d+)?$/ on a string without a decimal point
isNumericString(s) ==
  LET body == IF s # <<>> /\ s[1] \in {"+", "-"} THEN Tail(s) ELSE s
  IN  body # <<>> /\ \A i \in 1..Len(body) : body[i] \in Digits

\* Number(s) of such a string
numberOfString(s) ==
  IF s[1] = "-" THEN -DigitsVal(Tail(s))
  ELSE IF s[1] = "+" THEN DigitsVal(Tail(s)) ELSE DigitsVal(s)

\* a variant of squareRootOf that never takes a root: b is the text itself
squareRootOfUnrooted(bRaw) == <<"(">> \o bRaw \o <<")">>

\* the b of a^2 - b^2 that tryDifferenceOfSquares builds from the text after "^2-"
squareRootOf(bRaw) ==
  IF Len(bRaw) >= 3 /\ bRaw[Len(bRaw) - 1] = "^" /\ bRaw[Len(bRaw)] = "2"
  THEN Trim(SubStr(bRaw, 1, Len(bRaw) - 2))
  ELSE IF isNumericString(bRaw)
  THEN LET num == numberOfString(bRaw)
       IN  IF IsSquare(num) THEN IntStr(ISqrt(num, 0))
           ELSE <<"sqrt", "(">> \o IntStr(num) \o <<")">>
  ELSE <<"(">> \o bRaw \o <<")">>

\* tryDifferenceOfSquares: steps and result, or null; raised tells whether
\* an adapter call raised on the way
tryDifferenceOfSquares(numerator, denominator, variable, point) ==
  LET evaluated(result) ==
        IF result.k = "throw" THEN [res |-> null, raised |-> TRUE]
        ELSE [res |-> [steps |-> <<Step("Simplificacion inicial"),
                                   Step("Factorizacion de diferencia de cuadrados"),
                                   Step("Simplificacion de la fraccion"),
                                   Step("Evaluacion en el punto")>>,
                       result |-> result],
              raised |-> FALSE]
      evaluate(simplified) ==
        evaluated(IF IsErr(simplified) THEN Throw
                  ELSE Eval(simplified, ScopeOf(variable, numPointOf(point))))
      factored(a, b, denSimplified) ==
        evaluate(MathSimplify(<<"(">> \o a \o <<" ", "+", " ">> \o b \o <<")", "*", "(">>
                              \o a \o <<" ", "-", " ">> \o b \o <<")", "/", "(">>
                              \o denSimplified \o <<")">>))
      match(normNum, k, denSimplified) ==
        IF k = 0 THEN [res |-> null, raised |-> FALSE]
        ELSE factored(Trim(SubStr(normNum, 1, k - 1)),
                      squareRootOf(Trim(SubStr(normNum, k + 3, Len(normNum)))),
                      denSimplified)
      normalized(normNum, denSimplified) ==
        match(normNum, diffSquaresAt(normNum), denSimplified)
      simplified(numSimplified, denSimplified) ==
        IF ~numSimplified.ok \/ ~denSimplified.ok THEN [res |-> null, raised |-> TRUE]
        ELSE normalized(NoSpace(numSimplified.v), denSimplified.v)
  IN  simplified(SimplifyString(numerator), SimplifyString(denominator))

\* tryCommonFactorization: steps and result when the simplified fraction is
\* finite at the point, or null
tryCommonFactorization(numerator, denominator, variable, point) ==
  LET evaluated(result) ==
        IF result.k = "throw" THEN [res |-> null, raised |-> TRUE]
        ELSE IF IsFiniteNumber(result)
        THEN [res |-> [steps |-> <<Step("Simplificacion algebraica"),
                                   Step("Evaluacion despues de simplificar")>>,
                       result |-> result],
              raised |-> FALSE]
        ELSE [res |-> null, raised |-> FALSE]
      evaluate(simplified) ==
        evaluated(IF IsErr(simplified) THEN Throw
                  ELSE Eval(simplified, ScopeOf(variable, numPointOf(point))))
  IN  evaluate(MathSimplify(<<"(">> \o numerator \o <<")", " ", "/", " ", "(">>
                            \o denominator \o <<")">>))

\* parseFloat(v.toFixed(4)): v rounded to four decimals, half away from zero
toFixed4(v) ==
  IF v.k # "num" THEN v
  ELSE IF ~Fits(v.n, 20000) THEN Big
  ELSE LET q == (2 * 10000 * Abs(v.n) + v.d) \div (2 * v.d)
       IN  Rat((IF v.n < 0 THEN -1 ELSE 1) * q, 10000)


\* a variant of applyLHopitalNumerically that gives no limit when the values
\* at the two neighbours differ
applyLHopitalNumericallyAgreeing(expression, variable, point) ==
  LET average(rightValue, leftValue) ==
        IF rightValue.k = "throw" \/ leftValue.k = "throw" THEN Raised
        ELSE Ok([steps |-> <<Step("Evaluacion por limites laterales"),
                             Step("Promedio de limites laterales")>>,
                 result |-> IF rightValue = leftValue THEN toFixed4(rightValue) ELSE null])
  IN  average(EvaluateString(expression, variable,
                             VAdd(numPointOf(point), lhopitalEpsilon)),
              EvaluateString(expression, variable,
                             VSub(numPointOf(point), lhopitalEpsilon)))

\* applyLHopitalNumerically: the mean of the values at the two neighbours of
\* the point; an evaluation that raises is not caught here
applyLHopitalNumerically(expression, variable, point) ==
  LET average(rightValue, leftValue) ==
        IF rightValue.k = "throw" \/ leftValue.k = "throw" THEN Raised
        ELSE Ok([steps |-> <<Step("Evaluacion por limites laterales"),
                             Step("Promedio de limites laterales")>>,
                 result |-> toFixed4(VDiv(VAdd(rightValue, leftValue), Num(2)))])
  IN  average(EvaluateString(expression, variable,
                             VAdd(numPointOf(point), lhopitalEpsilon)),
              EvaluateString(expression, variable,
                             VSub(numPointOf(point), lhopitalEpsilon)))

\* simplifyExpression: the simplified expression evaluated at the point, or
\* no steps and null when the adapter raises
simplifyExpression(expression, variable, point) ==
  LET evaluated(result) ==
        IF result.k = "throw" THEN [steps |-> <<>>, result |-> null, raised |-> TRUE]
        ELSE [steps |-> <<Step("Simplificacion")>>, result |-> result, raised |-> FALSE]
      evaluate(simplified) ==
        evaluated(IF IsErr(simplified) THEN Throw
                  ELSE Eval(simplified, ScopeOf(variable, numPointOf(point))))
  IN  evaluate(MathSimplify(expression))

\* the threshold 100000 of evaluateInfinityLimit
asymptoticThreshold == 100000

\* Math.abs(v) > t for a rational v and a natural t
ExceedsInteger(v, t) ==
  Abs(v.n) \div v.d > t \/ (Abs(v.n) \div v.d = t /\ Abs(v.n) % v.d > 0)

\* Math.round(v) for a rational v
MathRound(v) ==
  LET q == v.n \div v.d
  IN  IF 2 * (v.n - q * v.d) >= v.d THEN q + 1 ELSE q

\* evaluateInfinityLimit: the value at the test value, replaced by an
\* infinity when its magnitude exceeds the threshold; the magnitude of a
\* value the model does not represent is not known, and it is kept
evaluateInfinityLimit(expression, variable, point) ==
  LET evaluated(result) ==
        IF result.k = "throw" THEN [steps |-> <<>>, result |-> null, raised |-> TRUE]
        ELSE IF result.k = "inf"
                \/ (result.k = "num" /\ ExceedsInteger(result, asymptoticThreshold))
        THEN [steps |-> <<Step("Evaluacion en valor grande"),
                          Step("Comportamiento asintotico")>>,
              result |-> Infinity(Sign(result)), raised |-> FALSE]
        ELSE [steps |-> <<Step("Evaluacion en valor grande")>>, result |-> result,
              raised |-> FALSE]
  IN  evaluated(EvaluateString(expression, variable, testValue(isPositiveInf(point))))

\* Math.abs(val - Math.round(val)) < 1e-6 for a rational val: its distance
\* to the nearest integer, times 1000000, is below 1
nearInteger(val) ==
  Abs(val.n - MathRound(val) * val.d) <= (val.d - 1) \div 1000000

\* evaluateAtInfinity: the value at 1e6 or -1e6, rounded when it is within
\* 1e-6 of an integer; raises when the evaluation raises
evaluateAtInfinity(expression, variable, positive) ==
  LET rounded(val) ==
        IF val.k = "num" /\ nearInteger(val) THEN Num(MathRound(val)) ELSE val
  IN  rounded(EvaluateString(expression, variable, testValue(positive)))

\* what resolveIndetermination returns; log lists the strategies it called,
\* in order, and raised tells whether an adapter call raised on the way
Resolution(steps, result, method, log, raised) ==
  [k |-> "resolution", steps |-> steps, result |-> result, method |-> method,
   log |-> log, raised |-> raised]

\* resolveIndetermination left by an exception: the ReferenceError of the
\* undeclared radicalLimit, or an evaluation raising in the numeric strategy
ResolutionRaised(log, raised, message) ==
  [k |-> "raise", log |-> log, raised |-> raised, message |-> message]

resolveIndetermination(expression, variable, point, indetermination) ==
  LET numeric(lhopital, raised) ==
        IF ~lhopital.ok
        THEN ResolutionRaised(<<"tryDifferenceOfSquares", "tryCommonFactorization",
                                "applyLHopitalNumerically">>, TRUE, LibraryMessage)
        ELSE Resolution(<<Step("Identificacion de numerador y denominador"),
                          Step("Aplicando aproximacion numerica")>> \o lhopital.v.steps,
                        lhopital.v.result,
                        "Aproximacion numerica (Regla de L'Hopital)",
                        <<"tryDifferenceOfSquares", "tryCommonFactorization",
                          "applyLHopitalNumerically">>,
                        raised)
      common(commonFactor, raised) ==
        IF commonFactor.res # null
        THEN ResolutionRaised(<<"tryDifferenceOfSquares", "tryCommonFactorization">>,
                              raised, ReferenceErrorMessage)
        ELSE numeric(applyLHopitalNumerically(expression, variable, point),
                     raised \/ commonFactor.raised)
      squares(diffSquares, numerator, denominator) ==
        IF diffSquares.res # null
        THEN Resolution(<<Step("Identificacion de numerador y denominador"),
                          Step("Aplicando diferencia de cuadrados")>>
                          \o diffSquares.res.steps,
                        diffSquares.res.result, "Diferencia de cuadrados",
                        <<"tryDifferenceOfSquares">>, FALSE)
        ELSE common(tryCommonFactorization(numerator, denominator, variable, point),
                    diffSquares.raised)
      fraction(numerator, denominator) ==
        squares(tryDifferenceOfSquares(numerator, denominator, variable, point),
                numerator, denominator)
      split(parts) ==
        IF Len(parts) # 2 THEN Resolution(<<>>, null, "null", <<>>, FALSE)
        ELSE fraction(StripParens(Trim(parts[1])), StripParens(Trim(parts[2])))
      algebraic(simplified) ==
        Resolution(simplified.steps, simplified.result, "Simplificacion algebraica",
                   <<"simplifyExpression">>, simplified.raised)
      atInfinity(infLimit) ==
        Resolution(infLimit.steps, infLimit.result, "Limite al infinito",
                   <<"evaluateInfinityLimit">>, infLimit.raised)
  IN  IF indetermination = "0/0"
      THEN IF Includes(expression, "/") THEN split(SplitOn(expression, "/"))
           ELSE algebraic(simplifyExpression(expression, variable, point))
      ELSE IF indetermination \in {"oo/oo", "oo/oo o oo-oo"}
      THEN atInfinity(evaluateInfinityLimit(expression, variable, point))
      ELSE Resolution(<<>>, null, "null", <<>>, FALSE)

\* the object calculateLimit returns; a null indetermination or method is
\* written "null".  log and raised are not fields of the object: log lists
\* the evaluations and strategies the call went through, raised tells
\* whether an adapter call raised during the call.
LimitResult(result, steps, indetermination, factorizationMethod, log, raised) ==
  [result |-> result, steps |-> steps, indetermination |-> indetermination,
   factorizationMethod |-> factorizationMethod, log |-> log, raised |-> raised]

\* the final step is pushed only for a result that is not null
withFinal(steps, result) ==
  IF result # null THEN steps \o <<FinalStep("Resultado final")>> ELSE steps

\* the catch block of the direct evaluation: detection, then resolution;
\* an exception of the resolution reaches the outer catch block
afterIndetermination(expression, variable, point, steps, log, raised) ==
  LET resolved(indetermination, resolution) ==
        IF resolution.k = "raise"
        THEN LimitResult(null,
                         steps \o <<Step("Indeterminacion detectada"),
                                    ErrorStep("Error", resolution.message)>>,
                         indetermination, "null",
                         log \o <<"detectIndetermination">> \o resolution.log, TRUE)
        ELSE LimitResult(resolution.result,
                         withFinal(steps \o <<Step("Indeterminacion detectada")>>
                                     \o resolution.steps,
                                   resolution.result),
                         indetermination, resolution.method,
                         log \o <<"detectIndetermination">> \o resolution.log,
                         raised \/ resolution.raised)
      detected(indetermination) ==
        resolved(indetermination,
                 resolveIndetermination(expression, variable, point, indetermination))
  IN  detected(detectIndetermination(expression, variable, point))

\* a variant of calculateLimit that classifies before it evaluates
calculateLimitClassifyFirst(expression, variable, point) ==
  afterIndetermination(expression, variable, point, <<Step("Expresion original")>>,
                       <<>>, FALSE)

calculateLimit(expression, variable, point) ==
  LET indeterminate(steps, log, raised) ==
        [k |-> "indeterminate", steps |-> steps, log |-> log, raised |-> raised]
      verified(numeric) ==
        IF IsFiniteNumber(numeric)
        THEN LimitResult(numeric,
                         withFinal(<<Step("Expresion original"),
                                     Step("Evaluacion numerica (verificacion)")>>, numeric),
                         "null", "null", <<"handleInfinityLimit", "evaluateAtInfinity">>,
                         FALSE)
        ELSE indeterminate(<<Step("Expresion original")>>,
                           <<"handleInfinityLimit", "evaluateAtInfinity">>,
                           numeric.k = "throw")
      symbolic(symbolicResult) ==
        IF symbolicResult # null
        THEN LimitResult(symbolicResult.result,
                         withFinal(<<Step("Expresion original")>> \o symbolicResult.steps,
                                   symbolicResult.result),
                         "null", "null", <<"handleInfinityLimit">>, FALSE)
        ELSE verified(evaluateAtInfinity(expression, variable, isPositiveInf(point)))
      direct(val) ==
        IF val.k = "throw"
        THEN indeterminate(<<Step("Expresion original")>>, <<"evaluate">>, TRUE)
        ELSE IF IsFiniteNumber(val)
        THEN LimitResult(val,
                         withFinal(<<Step("Expresion original"),
                                     Step("Evaluacion directa")>>, val),
                         "null", "null", <<"evaluate">>, FALSE)
        ELSE indeterminate(<<Step("Expresion original"), Step("Evaluacion directa")>>,
                           <<"evaluate">>, FALSE)
      evaluated ==
        IF IsErr(Parse(expression))
        THEN LimitResult(null, <<Step("Expresion original"),
                                      ErrorStep("Error", LibraryMessage)>>,
                         "null", "null", <<>>, TRUE)
        ELSE IF isInfinitePoint(point)
        THEN symbolic(handleInfinityLimit(expression, variable, point))
        ELSE direct(EvaluateString(expression, variable, numPointOf(point)))
      \* the catch block of the evaluation: detection and resolution
      caught(outcome) ==
        IF "k" \in DOMAIN outcome
        THEN afterIndetermination(expression, variable, point, outcome.steps,
                                  outcome.log, outcome.raised)
        ELSE outcome
  IN  caught(evaluated)

(***************************************************************************)
(* Implicit derivative engine.                                             *)
(***************************************************************************)
\* the call stack overflowing (a RangeError)
StackOverflow == [ok |-> FALSE, overflow |-> TRUE]

\* /^(-?\d*\.?\d*)$/ on a string without a decimal point
isCoefficient(s) ==
  LET body == IF s # <<>> /\ s[1] = "-" THEN Tail(s) ELSE s
  IN  \A i \in 1..Len(body) : body[i] \in Digits

\* the text /^(-?\d*\.?\d*)\*?/ leaves in its group when it matches the
\* whole of prefix, <<"no">> when it does not match
coefficientOf(prefix) ==
  IF isCoefficient(prefix) THEN prefix
  ELSE IF prefix[Len(prefix)] = "*" /\ isCoefficient(SubStr(prefix, 1, Len(prefix) - 1))
  THEN SubStr(prefix, 1, Len(prefix) - 1)
  ELSE <<"no">>

\* the position of the y of /^(-?\d*\.?\d*)\*?y\^(\d+)$/, 0 when no match
powerMatchAt(cleanTerm) ==
  LET ks == {k \in 1..(Len(cleanTerm) - 2) :
               /\ cleanTerm[k] = "y" /\ cleanTerm[k + 1] = "^"
               /\ \A i \in (k + 2)..Len(cleanTerm) : cleanTerm[i] \in Digits
               /\ coefficientOf(SubStr(cleanTerm, 1, k - 1)) # <<"no">>}
  IN  IF ks = {} THEN 0 ELSE SetMin(ks)

\* /^(-?\d*\.?\d*)\*?y$/ matches
linearMatch(cleanTerm) ==
  /\ cleanTerm # <<>> /\ cleanTerm[Len(cleanTerm)] = "y"
  /\ coefficientOf(SubStr(cleanTerm, 1, Len(cleanTerm) - 1)) # <<"no">>

\* coef || "1"
orOne(coef) == IF coef = <<>> THEN <<"1">> ELSE coef

\* the capacity of the call stack, in nested calls of deriveImplicitTerm
MaxStack == 6

RECURSIVE deriveImplicitTerm(_, _, _, _)
\* deriveImplicitTerm as the call number depth on the stack: the derivative
\* of the term and the steps extended, Raised when an adapter call raises
\* outside the fallback's try block, StackOverflow when the stack is full
deriveImplicitTerm(term, variable, steps, depth) ==
  LET cleanTerm == Trim(term)
      k == powerMatchAt(cleanTerm)
      exp == SubStr(cleanTerm, k + 2, Len(cleanTerm))
      factors == splitFactors(cleanTerm)
      yFactors == SelectSeq(factors, LAMBDA f : Includes(f, "y"))
      xFactors == SelectSeq(factors, LAMBDA f : ~Includes(f, "y"))
      yPart == JoinWith(yFactors, <<"*">>)
      xPart == IF xFactors = <<>> THEN <<"1">> ELSE JoinWith(xFactors, <<"*">>)
      onlyX(derivative) ==
        IF ~derivative.ok THEN [r |-> Raised, steps |-> steps]
        ELSE [r |-> derivative, steps |-> steps \o <<Step("Derivando termino")>>]
      power(coef) ==
        [r |-> Ok((IF coef = <<"1">> THEN <<>> ELSE coef \o <<"*">>) \o exp
                  \o <<"*", "y", "^">> \o IntStr(DigitsVal(exp) - 1)
                  \o <<"*", "y", "'">>),
         steps |-> steps \o <<Step("Derivando termino")>>]
      productRule(yDerivative, xDerivative) ==
        IF ~yDerivative.ok THEN [r |-> yDerivative, steps |-> steps]
        ELSE IF ~xDerivative.ok THEN [r |-> Raised, steps |-> steps]
        ELSE [r |-> Ok(<<"(">> \o yDerivative.v \o <<")", "*", "(">> \o xPart
                       \o <<")", " ", "+", " ", "(">> \o yPart \o <<")", "*", "(">>
                       \o xDerivative.v \o <<")">>),
              steps |-> steps \o <<Step("Derivando producto")>>]
  IN  IF depth > MaxStack THEN [r |-> StackOverflow, steps |-> steps]
      ELSE IF ~Includes(cleanTerm, "y") THEN onlyX(DerivativeString(cleanTerm, variable))
      ELSE IF k # 0 THEN power(orOne(coefficientOf(SubStr(cleanTerm, 1, k - 1))))
      ELSE IF linearMatch(cleanTerm)
      THEN [r |-> Ok(orOne(coefficientOf(SubStr(cleanTerm, 1, Len(cleanTerm) - 1)))
                     \o <<"*", "y", "'">>),
            steps |-> steps \o <<Step("Derivando termino")>>]
      ELSE IF Includes(cleanTerm, "*") /\ Len(yFactors) > 0
      THEN productRule(deriveImplicitTerm(yPart, variable, <<>>, depth + 1).r,
                       IF Len(xFactors) > 0 THEN DerivativeString(xPart, variable)
                       ELSE Ok(<<"0">>))
      ELSE [r |-> Ok(cleanTerm \o <<"*", "y", "'">>), steps |-> steps]

RECURSIVE deriveImplicitTerms(_, _, _, _)
\* the loop of deriveImplicitSide over the terms
deriveImplicitTerms(terms, variable, derivedTerms, steps) ==
  LET next(derived) ==
        IF ~derived.r.ok THEN derived
        ELSE deriveImplicitTerms(Tail(terms), variable, derivedTerms \o <<derived.r.v>>,
                                 derived.steps)
  IN  IF terms = <<>> THEN [r |-> Ok(derivedTerms), steps |-> steps]
      ELSE next(deriveImplicitTerm(Head(terms), variable, steps, 1))

deriveImplicitSide(expression, variable, steps) ==
  LET joined(m) ==
        IF ~m.r.ok THEN m
        ELSE [r |-> Ok(PlusMinusFix(JoinWith(m.r.v, <<" ", "+", " ">>))),
              steps |-> m.steps]
  IN  joined(deriveImplicitTerms(splitTerms(expression), variable, <<>>, steps))

\* s.replace(/y'/g, placeholder); a placeholder is one character of the
\* alphabet
replaceYPrimeBy(s, placeholder) ==
  LET n == Len(s)
      starts(i) == i >= 1 /\ i + 1 <= n /\ s[i] = "y" /\ s[i + 1] = "'"
  IN  ConcatAll([i \in 1..n |-> IF starts(i) THEN <<placeholder>>
                                ELSE IF starts(i - 1) THEN <<>>
                                ELSE <<s[i]>>], 1, n)

\* s.replace(/y'/g, "yp")
replaceYPrime(s) == replaceYPrimeBy(s, "yp")

\* s.replace(c, by) for a global pattern of the one character c
replaceChar(s, c, by) ==
  ConcatAll([i \in 1..Len(s) |-> IF s[i] = c THEN by ELSE <<s[i]>>], 1, Len(s))

\* s.replace(/yp/g, by)
replaceYp(s, by) == replaceChar(s, "yp", by)

\* math.simplify(s).toString() inside a try block that keeps s
simplifyOrKeep(s) ==
  LET kept(t) == IF t.ok THEN t.v ELSE s IN kept(SimplifyString(s))

\* s contains yp
hasYp(s) == \E i \in 1..Len(s) : s[i] = "yp"

\* the end of manualSolveForYPrime: y' isolated from the coefficients ypTerms
\* of yp and the sum constantRaw of the terms without yp
divideByCoefficient(ypTerms, constantRaw, steps) ==
  LET ypCoefRaw == IF Len(ypTerms) = 1 THEN ypTerms[1]
                   ELSE <<"(">> \o JoinWith(ypTerms, <<" ", "+", " ">>) \o <<")">>
  IN  IF Len(ypTerms) > 0
      THEN [result |-> [k |-> "str",
                        s |-> replaceYp(<<"-", "(">> \o simplifyOrKeep(constantRaw)
                                          \o <<")", "/", "(">>
                                          \o simplifyOrKeep(ypCoefRaw) \o <<")">>,
                                        <<"y", "'">>)],
            steps |-> steps \o <<Step("Despeje manual de y'")>>]
      ELSE [result |-> null, steps |-> steps]

\* manualSolveForYPrime from the expanded equation on: the terms with yp
\* and the terms without it
separateTerms(simplified, steps) ==
  LET terms == splitTerms(simplified.v)
      withYp == SelectSeq(terms, hasYp)
      constantTerms == SelectSeq(terms, LAMBDA term : ~hasYp(term))
  IN  IF ~simplified.ok THEN [result |-> null, steps |-> steps]
      ELSE divideByCoefficient(
             [i \in 1..Len(withYp) |-> simplifyOrKeep(replaceYp(withYp[i], <<"1">>))],
             IF Len(constantTerms) > 0 THEN JoinWith(constantTerms, <<" ", "+", " ">>)
             ELSE <<"0">>,
             steps)

\* manualSolveForYPrime: the text of y', or null, and the steps extended
manualSolveForYPrime(equation, steps) ==
  separateTerms(SimplifyString(replaceYPrime(equation)), steps)

\* a result that is a text
Str(s) == [k |-> "str", s |-> s]

\* the rules calculateImplicitDerivative reports
implicitRules == <<"Derivacion implicita", "Regla de la cadena para y">>

\* the catch block of calculateImplicitDerivative, after side stopped
implicitFailed(side) ==
  [result |-> Str(<<"Error en derivacion implicita">>),
   steps |-> side.steps
               \o <<ErrorStep("Error", IF side.r = StackOverflow THEN RangeErrorMessage
                                       ELSE LibraryMessage)>>,
   rules |-> implicitRules, overflow |-> side.r = StackOverflow, log |-> <<>>]

\* math.solve(equation, symbol): solve is not a function of the library, so
\* the call raises a TypeError
MathSolve(equation, symbol) == Raised

\* steps 6 and 7 of calculateImplicitDerivative without the catch block of
\* step 6: a solve that raises leaves the result null
solveDerivedEquationUncaught(simplified, steps) ==
  [result |-> Str(simplified),
   steps |-> steps \o <<Step("Derivadas de ambos lados"), Step("Ecuacion derivada"),
                        Step("Simplificando"), NotIsolatedStep("Resultado final")>>,
   rules |-> implicitRules, overflow |-> FALSE, log |-> <<"solve">>,
   equation |-> simplified]

\* calculateImplicitDerivative from the simplified derived equation on:
\* math.solve raises, the catch block calls manualSolveForYPrime, and the
\* result is its text, or the simplified equation when it returns null.
\* log and equation are not fields of the object: log lists the solvers
\* called, equation is the simplified equation of step 5.
solveDerivedEquation(simplified, steps) ==
  LET final(solved) ==
        [result |-> IF solved.result # null THEN solved.result ELSE Str(simplified),
         steps |-> solved.steps
                     \o <<IF solved.result # null THEN FinalStep("Resultado final")
                          ELSE NotIsolatedStep("Resultado final")>>,
         rules |-> implicitRules, overflow |-> FALSE,
         log |-> <<"solve", "manualSolveForYPrime">>, equation |-> simplified]
  IN  IF MathSolve(replaceYPrime(simplified), "yp").ok
      THEN [result |-> Str(replaceYp(MathSolve(replaceYPrime(simplified), "yp").v,
                                     <<"y", "'">>)),
            steps |-> steps \o <<Step("Derivadas de ambos lados"),
                                 Step("Ecuacion derivada"), Step("Simplificando"),
                                 Step("Despejando y'"), FinalStep("Resultado final")>>,
            rules |-> implicitRules, overflow |-> FALSE, log |-> <<"solve">>,
            equation |-> simplified]
      ELSE final(manualSolveForYPrime(simplified,
                                 steps \o <<Step("Derivadas de ambos lados"),
                                            Step("Ecuacion derivada"),
                                            Step("Simplificando")>>))

\* calculateImplicitDerivative once both sides are derived
equateSides(leftDerivative, rightDerivative) ==
  IF ~rightDerivative.r.ok THEN implicitFailed(rightDerivative)
  ELSE solveDerivedEquation(
         simplifyOrKeep(<<"(">> \o leftDerivative.r.v \o <<")", " ", "-", " ", "(">>
                          \o rightDerivative.r.v \o <<")">>),
         rightDerivative.steps)

\* calculateImplicitDerivative once the left side is derived
deriveRightSide(leftDerivative, rhs, variable) ==
  IF ~leftDerivative.r.ok THEN implicitFailed(leftDerivative)
  ELSE equateSides(leftDerivative,
                   deriveImplicitSide(rhs, variable, leftDerivative.steps))

\* calculateImplicitDerivative.  overflow tells whether a deriveImplicitTerm
\* overflowed the stack.
calculateImplicitDerivative(expression, variable) ==
  LET parts == IF Includes(expression, "=") THEN SplitOn(expression, "=")
               ELSE <<expression, <<"0">>>>
  IN  deriveRightSide(deriveImplicitSide(Trim(parts[1]), variable,
                                         <<Step("Derivacion implicita"),
                                           Step("Ecuacion original")>>),
                      Trim(parts[2]), variable)

\* the largest order of derivation asked for
MaxOrder == 2

RECURSIVE deriveOrders(_, _, _, _, _, _)
\* the loop of calculateDerivative from its iteration i (counted from 1)
deriveOrders(currentExpr, variable, order, i, steps, rules) ==
  LET next(derivativeResult) ==
        IF ~derivativeResult.r.ok THEN [r |-> Raised, steps |-> steps, rules |-> rules]
        ELSE deriveOrders(derivativeResult.r.v, variable, order, i + 1,
                          steps \o derivativeResult.steps
                            \o (IF i < order THEN <<Step("Derivada de orden")>> ELSE <<>>),
                          rules \o derivativeResult.rules)
  IN  IF i > order THEN [r |-> Ok(currentExpr), steps |-> steps, rules |-> rules]
      ELSE next(deriveExplicit(currentExpr, variable, i))

\* calculateDerivative on an expression without the prefix "f(x) ="
calculateDerivative(expression, variable, order, implicit) ==
  LET trimmed == Trim(expression)
      parts == SplitOn(trimmed, "=")
      cleanExpr == IF ~implicit /\ Includes(trimmed, "=") THEN Trim(parts[Len(parts)])
                   ELSE trimmed
      implicitly(implicitResult) ==
        [result |-> implicitResult.result,
         steps |-> <<Step("Expresion original")>> \o implicitResult.steps
                     \o <<FinalStep("Resultado final")>>,
         rules |-> Dedup(implicitResult.rules), overflow |-> implicitResult.overflow,
         log |-> implicitResult.log]
      explicitly(explicit) ==
        IF explicit.r.ok
        THEN [result |-> Str(explicit.r.v),
              steps |-> explicit.steps \o <<FinalStep("Resultado final")>>,
              rules |-> Dedup(explicit.rules), overflow |-> FALSE]
        ELSE [result |-> null,
              steps |-> explicit.steps \o <<ErrorStep("Error", LibraryMessage)>>,
              rules |-> Dedup(explicit.rules), overflow |-> FALSE]
  IN  IF implicit THEN implicitly(calculateImplicitDerivative(cleanExpr, variable))
      ELSE explicitly(deriveOrders(cleanExpr, variable, order, 1,
                                   <<Step("Expresion original")>>, <<>>))

(***************************************************************************)
(* The second derivative engine of the repository: the module with         *)
(* derivativeCache.  Its calculateDerivative and                           *)
(* calculateImplicitDerivative carry the suffix 2 here.                    *)
(***************************************************************************)
\* a character of \w
WordChar(c) == c \in Digits \/ c \in SymNames \/ c \in FnNames

\* term.replace(/\by\b(?!\()/g, "Y")
replaceBareY(term) ==
  LET n == Len(term)
  IN  [i \in 1..n |->
         IF /\ term[i] = "y"
            /\ (i = 1 \/ ~WordChar(term[i - 1]))
            /\ (i = n \/ (~WordChar(term[i + 1]) /\ term[i + 1] # "("))
         THEN "Y" ELSE term[i]]

\* the position of the y of the first match of /y\^(\d+)/, 0 when none
yPowerAt(term) ==
  LET ks == {k \in 1..(Len(term) - 2) :
               term[k] = "y" /\ term[k + 1] = "^" /\ term[k + 2] \in Digits}
  IN  IF ks = {} THEN 0 ELSE SetMin(ks)

\* the digits the group (\d+) takes from position i on
digitsFrom(term, i) ==
  LET ends == {j \in i..Len(term) : \A m \in i..j : term[m] \in Digits}
  IN  SubStr(term, i, SetMax(ends))

\* expression.split(/(?=[+-])/): a cut before every + and - but the first
\* character
splitBeforeSigns(expression) ==
  LET n == Len(expression)
      cuts == Ascending({i \in 2..n : expression[i] \in {"+", "-"}})
  IN  [k \in 1..(Len(cuts) + 1) |->
         SubStr(expression, IF k = 1 THEN 1 ELSE cuts[k - 1],
                IF k > Len(cuts) THEN n ELSE cuts[k] - 1)]

\* the callback of deriveSideWithMathJS on one term
deriveSideTerm(cleanTerm, variable) ==
  LET k == yPowerAt(cleanTerm)
      power == DigitsVal(digitsFrom(cleanTerm, k + 2))
      ofY(dTerm) ==
        IF ~dTerm.ok THEN Raised
        ELSE IF Includes(cleanTerm, variable) THEN Ok(replaceChar(dTerm.v, "Y", <<"y">>))
        ELSE IF k # 0
        THEN Ok(IntStr(power) \o <<"*", "y", "^">> \o IntStr(power - 1) \o <<"*", "y", "'">>)
        ELSE Ok(<<"y", "'">>)
  IN  IF Includes(cleanTerm, "y")
      THEN ofY(DerivativeString(replaceBareY(cleanTerm), variable))
      ELSE DerivativeString(cleanTerm, variable)

\* deriveSideWithMathJS: the text of the derived side and the steps
\* extended, Raised when it throws its Error
deriveSideWithMathJS(expression, variable, steps) ==
  LET terms == splitBeforeSigns(expression)
      derivedTerms == [i \in 1..Len(terms) |-> deriveSideTerm(Trim(terms[i]), variable)]
  IN  IF \E i \in 1..Len(terms) : ~derivedTerms[i].ok
      THEN [r |-> Raised, steps |-> steps]
      ELSE [r |-> Ok(JoinWith([i \in 1..Len(terms) |-> derivedTerms[i].v],
                              <<" ", "+", " ">>)),
            steps |-> steps \o <<Step("Derivando lado")>>]

\* equation.replace(/\s*=\s*0\s*$/, "").trim()
withoutEqualsZero(equation) ==
  LET right == TrimRight(equation)
      n == Len(right)
      left == TrimRight(SubStr(right, 1, n - 1))
  IN  IF n >= 1 /\ right[n] = "0" /\ left # <<>> /\ left[Len(left)] = "="
      THEN Trim(SubStr(left, 1, Len(left) - 1))
      ELSE Trim(equation)

\* `${text}` for a text that may be null
textOrNull(t) == IF t.ok THEN t.v ELSE <<"null">>

\* solveForYPrimeManual from the coefficient and the constant term on: null
\* stands for a text that could not be computed
isolateWith(coef, constTerm, steps) ==
  IF ~coef.ok \/ coef.v = <<"0">>
  THEN [result |-> Str(<<"No lineal">>), steps |-> steps \o <<Step("No lineal en y'")>>]
  ELSE [result |-> Str(replaceChar(<<"-", "(">> \o textOrNull(constTerm)
                                     \o <<")", "/", "(">> \o coef.v \o <<")">>,
                                   "YP", <<"y", "'">>)),
        steps |-> steps \o <<Step("Despejando y' manualmente")>>]

\* solveForYPrimeManual on the equation with YP for y'
solveForPlaceholder(exprYP, steps) ==
  IF \A i \in 1..Len(exprYP) : exprYP[i] # "YP"
  THEN [result |-> Str(<<"No se encontro y' en la ecuacion">>), steps |-> steps]
  ELSE isolateWith(NodeString(SimplifyParsed(MathDerivative(exprYP, "YP"))),
                   SimplifyString(replaceChar(exprYP, "YP", <<"0">>)), steps)

\* solveForYPrimeManual: the text it returns and the steps extended
solveForYPrimeManual(equation, steps) ==
  solveForPlaceholder(replaceYPrimeBy(withoutEqualsZero(equation), "YP"), steps)

\* solveForYPrime: math.solve raises, and the catch block returns what
\* solveForYPrimeManual returns
solveForYPrime(equation, steps) ==
  IF MathSolve(replaceYPrimeBy(equation, "YP"), "YP").ok
  THEN [result |-> Str(replaceChar(MathSolve(replaceYPrimeBy(equation, "YP"), "YP").v,
                                   "YP", <<"y", "'">>)),
        steps |-> steps \o <<Step("Solucion para y'")>>, log |-> <<"solve">>]
  ELSE [log |-> <<"solve", "solveForYPrimeManual">>]
         @@ solveForYPrimeManual(equation, steps)

\* the catch block of the second calculateImplicitDerivative
implicitFailed2(side) ==
  [result |-> Str(<<"Error">>),
   steps |-> side.steps \o <<ErrorStep("Error", NotDerivedMessage)>>,
   rules |-> implicitRules, overflow |-> FALSE, log |-> <<>>]

\* the second calculateImplicitDerivative from the simplified equation on
solveSimplifiedEquation(simplifiedEquation, steps) ==
  LET final(solved) ==
        IF solved.result # Str(<<>>) /\ solved.result # Str(<<"Error">>)
        THEN [result |-> solved.result,
              steps |-> solved.steps \o <<FinalStep("Resultado final")>>,
              rules |-> implicitRules, overflow |-> FALSE, log |-> solved.log,
              equation |-> simplifiedEquation]
        ELSE [result |-> Str(simplifiedEquation),
              steps |-> solved.steps \o <<EquationStep("Resultado")>>,
              rules |-> implicitRules, overflow |-> FALSE, log |-> solved.log,
              equation |-> simplifiedEquation]
  IN  final(solveForYPrime(simplifiedEquation,
                           steps \o <<Step("Derivadas de ambos lados"),
                                      Step("Ecuacion derivada")>>))

\* the second calculateImplicitDerivative once both sides are derived
equateSides2(leftDerivative, rightDerivative) ==
  IF ~rightDerivative.r.ok THEN implicitFailed2(rightDerivative)
  ELSE solveSimplifiedEquation(
         simplifyOrKeep(<<"(">> \o leftDerivative.r.v \o <<")", " ", "-", " ", "(">>
                          \o rightDerivative.r.v \o <<")">>),
         rightDerivative.steps)

\* the second calculateImplicitDerivative once the left side is derived
deriveRightSide2(leftDerivative, rhs, variable) ==
  IF ~leftDerivative.r.ok THEN implicitFailed2(leftDerivative)
  ELSE equateSides2(leftDerivative,
                    deriveSideWithMathJS(rhs, variable, leftDerivative.steps))

\* calculateImplicitDerivative of the second engine
calculateImplicitDerivative2(expression, variable) ==
  LET parts == IF Includes(expression, "=") THEN SplitOn(expression, "=")
               ELSE <<expression, <<"0">>>>
  IN  deriveRightSide2(deriveSideWithMathJS(Trim(parts[1]), variable,
                                            <<Step("Ecuacion original")>>),
                       Trim(parts[2]), variable)

\* the first position of s from i on that holds no blank, Len(s) + 1 when
\* there is none
SpacesFrom(s, i) ==
  LET rest == {k \in i..Len(s) : s[k] # " "}
  IN  IF rest = {} THEN Len(s) + 1 ELSE SetMin(rest)

\* expr.replace(/^f\s*\(\s*x\s*\)\s*=\s*/, "").trim()
normalizeMathExpression(expr) ==
  LET n == Len(expr)
      at(i, c) == i <= n /\ expr[i] = c
      open == SpacesFrom(expr, 2)
      symbol == SpacesFrom(expr, open + 1)
      close == SpacesFrom(expr, symbol + 1)
      equals == SpacesFrom(expr, close + 1)
  IN  IF at(1, "f") /\ at(open, "(") /\ at(symbol, "x") /\ at(close, ")") /\ at(equals, "=")
      THEN Trim(SubStr(expr, SpacesFrom(expr, equals + 1), n))
      ELSE Trim(expr)

\* the characters of the name of a variable
VariableText(variable) == IF variable = "x|x" THEN <<"x", "|", "x">> ELSE <<variable>>

\* `${expression}|${variable}|${order}|${implicit}`
cacheKey(expression, variable, order, implicit) ==
  expression \o <<"|">> \o VariableText(variable) \o <<"|">> \o IntStr(order) \o <<"|">>
    \o <<IF implicit THEN "true" ELSE "false">>

RECURSIVE deriveOrders2(_, _, _, _, _)
\* the loop of the second calculateDerivative from its iteration i (counted
\* from 1), and the simplification that follows it
deriveOrders2(currentExpr, variable, order, i, steps) ==
  LET next(simplified) ==
        IF ~simplified.ok THEN [r |-> Raised, steps |-> steps]
        ELSE deriveOrders2(simplified.v, variable, order, i + 1,
                           steps \o <<Step("Derivada de orden")>>)
  IN  IF i > order THEN [r |-> SimplifyString(currentExpr), steps |-> steps]
      ELSE next(NodeString(SimplifyParsed(MathDerivative(currentExpr, variable))))

\* the second calculateDerivative when the cache has no entry for the call:
\* object is what it returns, stored whether it put the object in the cache
computeDerivative2(expression, variable, order, implicit) ==
  LET normalized == normalizeMathExpression(expression)
      parts == SplitOn(normalized, "=")
      cleanExpr == IF ~implicit /\ Includes(normalized, "=") THEN Trim(parts[Len(parts)])
                   ELSE normalized
      finalResult(result, steps, rules) ==
        [result |-> result, steps |-> steps \o <<FinalStep("Resultado final")>>,
         rules |-> Dedup(rules), expression |-> expression, variable |-> variable,
         order |-> order, implicit |-> implicit]
      implicitly(implicitResult) ==
        [object |-> finalResult(implicitResult.result,
                                <<Step("Expresion original")>> \o implicitResult.steps,
                                implicitResult.rules),
         stored |-> TRUE]
      explicitly(explicit) ==
        IF explicit.r.ok
        THEN [object |-> finalResult(Str(explicit.r.v), explicit.steps, <<>>),
              stored |-> TRUE]
        ELSE [object |-> [result |-> null,
                          steps |-> explicit.steps \o <<ErrorStep("Error", LibraryMessage)>>,
                          rules |-> <<>>, expression |-> expression,
                          variable |-> variable, order |-> order, implicit |-> implicit],
              stored |-> FALSE]
  IN  IF implicit THEN implicitly(calculateImplicitDerivative2(cleanExpr, variable))
      ELSE explicitly(deriveOrders2(cleanExpr, variable, order, 1,
                                    <<Step("Expresion original")>>))

\* the second calculateDerivative, cache being derivativeCache at the call:
\* the object returned, the cache after the call, and whether the object
\* came from the cache
calculateDerivative2(expression, variable, order, implicit, cache) ==
  LET key == cacheKey(expression, variable, order, implicit)
      computed(fresh) ==
        [ret |-> fresh.object,
         cache |-> IF fresh.stored THEN (key :> fresh.object) @@ cache ELSE cache,
         hit |-> FALSE]
  IN  IF key \in DOMAIN cache THEN [ret |-> cache[key], cache |-> cache, hit |-> TRUE]
      ELSE computed(computeDerivative2(expression, variable, order, implicit))

(***************************************************************************)
(* The calls.  call is the call being made, ret what it returned, pending  *)
(* until it returns.                                                       *)
(***************************************************************************)
pending == [k |-> "pending"]

\* no calculator component is mounted
unmounted == [name |-> "none"]

\* the largest number of binary operators in an expression of a call
MaxOps == 2

Operators == {"+", "-", "*", "/", "^"}

RECURSIVE ExpressionsOf(_, _)
\* the texts of n binary operators over the operands
ExpressionsOf(operands, n) ==
  IF n = 0 THEN operands
  ELSE {e \o <<o>> \o a : e \in ExpressionsOf(operands, n - 1), o \in Operators,
                          a \in operands}

DerivativeOperands == {<<"x">>, <<"2">>, <<"sin", "(", "x", ")">>}

\* the expressions differentiated: up to MaxOps operators, with or without
\* a leading minus
DerivativeExpressions ==
  LET plain == UNION {ExpressionsOf(DerivativeOperands, n) : n \in 0..MaxOps}
  IN  plain \cup {<<"-">> \o e : e \in plain}

\* expressions of ln, which the library does not differentiate
LogarithmExpressions ==
  {<<"ln", "(", "x", ")">>, <<"ln", "(", "x", ")", "+", "x">>,
   <<"x", "*", "ln", "(", "x", ")">>, <<"sin", "(", "ln", "(", "x", ")", ")">>,
   <<"ln", "(", "2", ")", "*", "x">>}

ImplicitTerms ==
  {<<"y">>, <<"y", "^", "2">>, <<"2", "*", "y">>, <<"x", "*", "y">>, <<"y", "*", "y">>,
   <<"x", "^", "2">>, <<"x">>, <<"sin", "(", "y", ")">>, <<"3">>}

\* the equations differentiated implicitly: one or two terms on the left
ImplicitEquations ==
  {l \o <<" ", "=", " ">> \o r : l \in ImplicitTerms, r \in ImplicitTerms}
    \cup {a \o <<" ", "+", " ">> \o b \o <<" ", "=", " ">> \o r :
            a \in ImplicitTerms, b \in ImplicitTerms, r \in {<<"x">>, <<"3">>}}

DerivativeCalls ==
  {[fn |-> "calculateDerivative", expression |-> e, variable |-> "x", order |-> o,
    implicit |-> FALSE] :
     e \in DerivativeExpressions \cup LogarithmExpressions, o \in 1..MaxOrder}
  \cup {[fn |-> "calculateDerivative", expression |-> e, variable |-> "x", order |-> 1,
         implicit |-> TRUE] : e \in ImplicitEquations}
  \cup {[fn |-> f, expression |-> e, variable |-> "x"] :
          f \in {"calculateImplicitDerivative", "calculateImplicitDerivative2"},
          e \in ImplicitEquations}
  \cup {[fn |-> "calculateDerivative2", expression |-> e, variable |-> "x",
         order |-> o, implicit |-> FALSE] :
          e \in DerivativeExpressions
                  \cup {<<"f", "(", "x", ")", " ", "=", " ">> \o d : d \in DerivativeOperands},
          o \in 1..MaxOrder}

InitDerivative ==
  /\ call \in DerivativeCalls
  /\ ret = pending /\ derivativeCache = <<>> /\ cacheHit = FALSE
  /\ component = unmounted /\ timers = 0

CalculateDerivative ==
  /\ call.fn = "calculateDerivative" /\ ret = pending
  /\ ret' = calculateDerivative(call.expression, call.variable, call.order, call.implicit)
  /\ UNCHANGED <<call, derivativeCache, cacheHit, component, timers>>

CalculateImplicitDerivative ==
  /\ call.fn = "calculateImplicitDerivative" /\ ret = pending
  /\ ret' = calculateImplicitDerivative(call.expression, call.variable)
  /\ UNCHANGED <<call, derivativeCache, cacheHit, component, timers>>

\* a call of the second engine's calculateImplicitDerivative
CalculateImplicitDerivative2 ==
  /\ call.fn = "calculateImplicitDerivative2" /\ ret = pending
  /\ ret' = calculateImplicitDerivative2(call.expression, call.variable)
  /\ UNCHANGED <<call, derivativeCache, cacheHit, component, timers>>

\* the call c of the second engine's calculateDerivative
CalculateDerivative2Of(c) ==
  LET done == calculateDerivative2(c.expression, c.variable, c.order, c.implicit,
                                   derivativeCache)
  IN  /\ ret' = done.ret
      /\ derivativeCache' = done.cache
      /\ cacheHit' = done.hit

CalculateDerivative2 ==
  /\ call.fn = "calculateDerivative2" /\ ret = pending
  /\ CalculateDerivative2Of(call)
  /\ UNCHANGED <<call, component, timers>>

NextDerivative ==
  \/ CalculateDerivative
  \/ CalculateImplicitDerivative
  \/ CalculateImplicitDerivative2
  \/ CalculateDerivative2

SpecDerivative == InitDerivative /\ [][NextDerivative]_vars

\* the calls of the second calculateDerivative made one after the other on
\* one cache: the variable is the text of an input field, so it may hold
\* any characters
CachedExpressions == {<<"y", " ", "=", " ", "x">>, <<"y", " ", "=", " ", "x", "|", "x">>}

CachedVariables == {"x", "x|x"}

CachedCalls ==
  {[fn |-> "calculateDerivative2", expression |-> e, variable |-> v, order |-> o,
    implicit |-> i] :
     e \in CachedExpressions, v \in CachedVariables, o \in 1..MaxOrder, i \in BOOLEAN}

InitCached ==
  /\ call = [fn |-> "none"]
  /\ ret = pending /\ derivativeCache = <<>> /\ cacheHit = FALSE
  /\ component = unmounted /\ timers = 0

\* one more call of the second calculateDerivative
CalculateDerivative2Again ==
  /\ \E c \in CachedCalls : call' = c /\ CalculateDerivative2Of(c)
  /\ UNCHANGED <<component, timers>>

NextCached == CalculateDerivative2Again

SpecCached == InitCached /\ [][NextCached]_vars

\* the longest expression analyzeExpression is called on by itself
MaxLen == 4

AnalyzedCharacters == {"x", "2", "+", "-", "*", "/", "^", "sin", "(", ")", " "}

RECURSIVE TextsOf(_, _)
\* the texts of n characters
TextsOf(characters, n) ==
  IF n = 0 THEN {<<>>}
  ELSE {t \o <<c>> : t \in TextsOf(characters, n - 1), c \in characters}

AnalyzeCalls ==
  {[fn |-> "analyzeExpression", expression |-> e, variable |-> "x"] :
     e \in UNION {TextsOf(AnalyzedCharacters, n) : n \in 1..MaxLen}}

InitAnalyze ==
  /\ call \in AnalyzeCalls
  /\ ret = pending /\ derivativeCache = <<>> /\ cacheHit = FALSE
  /\ component = unmounted /\ timers = 0

AnalyzeExpression ==
  /\ call.fn = "analyzeExpression" /\ ret = pending
  /\ ret' = [type |-> analyzeExpression(call.expression, call.variable)]
  /\ UNCHANGED <<call, derivativeCache, cacheHit, component, timers>>

NextAnalyze == AnalyzeExpression

SpecAnalyze == InitAnalyze /\ [][NextAnalyze]_vars

\* the longest expression deriveQuotient is called on by itself
MaxQuotientLen == 5

QuotientCharacters == {"x", "2", "/", "(", ")", "sin"}

\* deriveExplicit calls deriveQuotient on the texts tagged quotient
QuotientCalls ==
  {[fn |-> "deriveQuotient", expression |-> e, variable |-> "x"] :
     e \in {t \in UNION {TextsOf(QuotientCharacters, n) : n \in 1..MaxQuotientLen} :
              analyzeExpression(t, "x") = "quotient"}}

InitQuotient ==
  /\ call \in QuotientCalls
  /\ ret = pending /\ derivativeCache = <<>> /\ cacheHit = FALSE
  /\ component = unmounted /\ timers = 0

DeriveQuotient ==
  /\ call.fn = "deriveQuotient" /\ ret = pending
  /\ ret' = deriveQuotient(call.expression, call.variable, <<>>, <<>>)
  /\ UNCHANGED <<call, derivativeCache, cacheHit, component, timers>>

NextQuotient == DeriveQuotient

SpecQuotient == InitQuotient /\ [][NextQuotient]_vars

\* the exercise of generateRational00Limit for a: (x^2 - a*a) / (x - a)
\* the largest a the exercise generators draw
MaxA == 5

rational00Expression(a) ==
  <<"(", "x", "^", "2", " ", "-", " ">> \o IntStr(a * a) \o <<")", " ", "/", " ", "(", "x",
    " ", "-", " ">> \o IntStr(a) \o <<")">>

radicalExpression(a) ==
  <<"(", "sqrt", "(", "x", " ", "+", " ">> \o IntStr(a) \o <<")", " ", "-", " ", "sqrt", "(">>
    \o IntStr(a) \o <<")", ")", " ", "/", " ", "x">>

trigonometricExpression == <<"sin", "(", "x", ")", " ", "/", " ", "x">>

LimitOperands ==
  {<<"x">>, <<"1">>, <<"2">>, <<"y">>, <<"sin", "(", "x", ")">>, <<"ln", "(", "x", ")">>,
   <<"sqrt", "(", "x", ")">>}

ChainOperands == {<<"x">>, <<"1">>}

Numerators ==
  {<<"x", "^", "2", " ", "-", " ", "1">>, <<"x", "^", "2", " ", "-", " ", "x">>,
   <<"x", "^", "2", "-", "x", "^", "2">>, <<"x", "^", "2", " ", "+", " ", "x">>,
   <<"x", "*", "x", " ", "-", " ", "1">>, <<"x", " ", "-", " ", "1">>,
   <<"x", "^", "2", " ", "+", " ", "sin", "(", "x", ")">>,
   <<"sin", "(", "x", ")", " ", "+", " ", "x">>}

Denominators ==
  {<<"x", " ", "-", " ", "1">>, <<"x", " ", "+", " ", "1">>, <<"x">>,
   <<"x", "^", "2", " ", "-", " ", "1">>, <<"x", " ", "-", " ", "x">>}

\* the expressions whose limit is asked for: the generated exercises, the
\* operands under at most one operator, the chains of MaxOps operators, and
\* the parenthesised fractions
LimitExpressions ==
  {rational00Expression(a) : a \in 1..MaxA}
    \cup {radicalExpression(a) : a \in 1..MaxA} \cup {trigonometricExpression}
    \cup ExpressionsOf(LimitOperands, 0) \cup ExpressionsOf(LimitOperands, 1)
    \cup ExpressionsOf(ChainOperands, MaxOps)
    \cup {<<"(">> \o n \o <<")", "/", "(">> \o d \o <<")">> :
            n \in Numerators, d \in Denominators}

\* the points: the naturals up to MaxPoint and the two infinities
Points == {Num(n) : n \in 0..MaxPoint} \cup {StringPoint("infinity"), StringPoint("-infinity")}

LimitCalls ==
  {[fn |-> "calculateLimit", expression |-> e, variable |-> "x", point |-> p] :
     e \in LimitExpressions, p \in Points}

InitLimit ==
  /\ call \in LimitCalls
  /\ ret = pending /\ derivativeCache = <<>> /\ cacheHit = FALSE
  /\ component = unmounted /\ timers = 0

CalculateLimit ==
  /\ call.fn = "calculateLimit" /\ ret = pending
  /\ ret' = calculateLimit(call.expression, call.variable, call.point)
  /\ UNCHANGED <<call, derivativeCache, cacheHit, component, timers>>

NextLimit == CalculateLimit

SpecLimit == InitLimit /\ [][NextLimit]_vars

\* the largest degree of the polynomials of the limits at infinity
MaxDegree == 2

\* the coefficient vectors <<c0, c1, c2>> of the polynomials that are not zero
Polynomials ==
  {c \in [0..MaxDegree -> (-MaxCoef)..MaxCoef] : \E i \in 0..MaxDegree : c[i] # 0}

\* the text of the term c * x^i without its sign
termText(c, i) ==
  IF i = 0 THEN NatStr(Abs(c))
  ELSE IF i = 1 THEN NatStr(Abs(c)) \o <<"*", "x">>
  ELSE NatStr(Abs(c)) \o <<"*", "x", "^">> \o NatStr(i)

RECURSIVE polynomialText(_, _, _)
\* the terms of c of degree i and below, from the highest on, after the
\* text written so far
polynomialText(c, i, written) ==
  IF i < 0 THEN written
  ELSE IF c[i] = 0 THEN polynomialText(c, i - 1, written)
  ELSE IF written = <<>>
  THEN polynomialText(c, i - 1, (IF c[i] < 0 THEN <<"-">> ELSE <<>>) \o termText(c[i], i))
  ELSE polynomialText(c, i - 1,
                      written \o (IF c[i] < 0 THEN <<" ", "-", " ">> ELSE <<" ", "+", " ">>)
                        \o termText(c[i], i))

\* the quotient of two polynomials as the exercise generator writes it
quotientText(num, den) ==
  <<"(">> \o polynomialText(num, MaxDegree, <<>>) \o <<")", " ", "/", " ", "(">>
    \o polynomialText(den, MaxDegree, <<>>) \o <<")">>

\* num and den are the polynomials the expression was written from
InfinityCalls ==
  {[fn |-> "handleInfinityLimit", expression |-> quotientText(num, den), variable |-> "x",
    point |-> StringPoint(p), num |-> num, den |-> den] :
     num \in Polynomials, den \in Polynomials, p \in {"infinity", "-infinity"}}

InitInfinity ==
  /\ call \in InfinityCalls
  /\ ret = pending /\ derivativeCache = <<>> /\ cacheHit = FALSE
  /\ component = unmounted /\ timers = 0

HandleInfinityLimit ==
  /\ call.fn = "handleInfinityLimit" /\ ret = pending
  /\ ret' = handleInfinityLimit(call.expression, call.variable, call.point)
  /\ UNCHANGED <<call, derivativeCache, cacheHit, component, timers>>

NextInfinity == HandleInfinityLimit

SpecInfinity == InitInfinity /\ [][NextInfinity]_vars

\* the largest exponent of y in the terms deriveImplicitTerm is called on by
\* itself
MaxExponent == 4

\* the coefficient of a term before y: absent, a sign alone, or an integer
\* with or without the sign of the product after it
TermCoefficients ==
  {<<>>, <<"-">>} \cup {IntStr(c) : c \in (0 - MaxCoef)..MaxCoef}
    \cup {IntStr(c) \o <<"*">> : c \in (0 - MaxCoef)..MaxCoef}

\* y alone and the powers of y
TermPowers == {<<"y">>} \cup {<<"y", "^">> \o NatStr(n) : n \in 0..MaxExponent}

\* deriveImplicitSide calls deriveImplicitTerm on the terms splitTerms
\* returns; a term c*y^n is one of them when splitTerms leaves it whole
ImplicitTermCalls ==
  {[fn |-> "deriveImplicitTerm", term |-> t, variable |-> "x"] :
     t \in {t \in {c \o p : c \in TermCoefficients, p \in TermPowers} :
              splitTerms(t) = <<t>>}}

InitImplicitTerm ==
  /\ call \in ImplicitTermCalls
  /\ ret = pending /\ derivativeCache = <<>> /\ cacheHit = FALSE
  /\ component = unmounted /\ timers = 0

DeriveImplicitTerm ==
  /\ call.fn = "deriveImplicitTerm" /\ ret = pending
  /\ ret' = deriveImplicitTerm(call.term, call.variable, <<>>, 1)
  /\ UNCHANGED <<call, derivativeCache, cacheHit, component, timers>>

NextImplicitTerm == DeriveImplicitTerm

SpecImplicitTerm == InitImplicitTerm /\ [][NextImplicitTerm]_vars

SplitCharacters == {"x", "2", "+", "-", "*", "^", "(", ")"}

\* splitTerms is called on the expression of deriveSumOrDifference and on
\* the sides of the equation of the implicit engine
SplitCalls ==
  {[fn |-> "splitTerms", expression |-> e] :
     e \in UNION {TextsOf(SplitCharacters, n) : n \in 1..MaxLen}}

InitSplit ==
  /\ call \in SplitCalls
  /\ ret = pending /\ derivativeCache = <<>> /\ cacheHit = FALSE
  /\ component = unmounted /\ timers = 0

SplitTerms ==
  /\ call.fn = "splitTerms" /\ ret = pending
  /\ ret' = [terms |-> splitTerms(call.expression)]
  /\ UNCHANGED <<call, derivativeCache, cacheHit, component, timers>>

NextSplit == SplitTerms

SpecSplit == InitSplit /\ [][NextSplit]_vars

(***************************************************************************)
(* The calculator components.  component holds the refs of the mounted     *)
(* component: name, expression, variable, order and implicit               *)
(* (DerivativesCalculator), point (LimitsCalculator, the text of the       *)
(* input), result and calculating, and the history flag generated: the     *)
(* last of generateRandom() and calculate() to run was generateRandom().   *)
(* A click is one action; the callback calculate() hands to setTimeout is  *)
(* another, run later by the event loop.                                   *)
(***************************************************************************)
\* the callbacks of calculate() that can be scheduled at once
MaxTimers == 2

\* generateExponentialDerivative and generateImplicitDerivative for a
exponentialExercise(a) ==
  [expression |-> <<"exp", "(">> \o IntStr(a) \o <<"*", "x", ")">>, variable |-> "x",
   order |-> 1, implicit |-> FALSE]

implicitExercise(a) ==
  [expression |-> <<"x", "^", "2", " ", "+", " ", "y", "^", "2", " ", "=", " ">> \o IntStr(a),
   variable |-> "x", order |-> 1, implicit |-> TRUE]

\* the objects generateRandomDerivative() returns, for two of its types
RandomDerivatives ==
  {exponentialExercise(a) : a \in 1..MaxA} \cup {implicitExercise(a) : a \in 1..MaxA}

\* the objects generateRandomLimit() returns, for three of its types, with
\* point.toString() for the point
RandomLimits ==
  {[expression |-> rational00Expression(a), variable |-> "x", point |-> IntStr(a)] :
     a \in 1..MaxA}
    \cup {[expression |-> radicalExpression(a), variable |-> "x", point |-> IntStr(0)] :
            a \in 1..MaxA}
    \cup {[expression |-> trigonometricExpression, variable |-> "x", point |-> IntStr(0)]}

\* what the user types into the custom exercise form
CustomExpressions == {<<"x", "^", "2">>, <<"y", " ", "=", " ", "x">>}

CustomTypes == {"null", "Derivada explicita", "Derivada implicita", "Orden superior"}

\* parseFloat on the text of the point input: an optional sign and digits
parseFloat(text) ==
  LET digits == IF text # <<>> /\ text[1] = "-" THEN Tail(text) ELSE text
  IN  IF digits = <<>> \/ \E i \in 1..Len(digits) : digits[i] \notin Digits THEN NaN
      ELSE IF text[1] = "-" THEN Num(-DigitsVal(digits))
      ELSE Num(DigitsVal(digits))

\* the point calculate() of LimitsCalculator passes to calculateLimit
pointValue(text) ==
  IF text \in {<<"infinity">>, <<"inf">>} THEN StringPoint("infinity")
  ELSE IF text \in {<<"-infinity">>, <<"-inf">>} THEN StringPoint("-infinity")
  ELSE parseFloat(text)

\* the refs of DerivativesCalculator when it is set up
DerivativesCalculator ==
  [name |-> "DerivativesCalculator",
   expression |-> <<"x", "^", "3", " ", "+", " ", "2", "*", "x", "^", "2", " ", "+", " ", "x">>,
   variable |-> "x", order |-> 1, implicit |-> FALSE, point |-> <<>>,
   result |-> null, calculating |-> FALSE, generated |-> FALSE]

\* the refs of LimitsCalculator when it is set up
LimitsCalculator ==
  [name |-> "LimitsCalculator", expression |-> rational00Expression(2),
   variable |-> "x", order |-> 1, implicit |-> FALSE, point |-> <<"2">>,
   result |-> null, calculating |-> FALSE, generated |-> FALSE]

InitComponent ==
  /\ call = [fn |-> "none"]
  /\ ret = pending /\ derivativeCache = <<>> /\ cacheHit = FALSE
  /\ component \in {DerivativesCalculator, LimitsCalculator} /\ timers = 0

\* calculate(): sets calculating and schedules the callback
calculate(refs) == [refs EXCEPT !.calculating = TRUE, !.generated = FALSE]

\* a click on "Calcular"; the button is disabled while calculating is set
\* (:loading="calculating")
Calculate ==
  /\ component.name # "none" /\ ~component.calculating
  /\ timers < MaxTimers
  /\ component' = calculate(component)
  /\ timers' = timers + 1
  /\ UNCHANGED <<call, ret, derivativeCache, cacheHit>>

\* the callback of calculate(), which reads the refs when it runs
Timeout ==
  /\ component.name # "none" /\ timers > 0
  /\ component' =
       [component EXCEPT
          !.result =
            IF component.name = "DerivativesCalculator"
            THEN calculateDerivative(component.expression, component.variable,
                                     component.order, component.implicit)
            ELSE calculateLimit(component.expression, component.variable,
                                pointValue(component.point)),
          !.calculating = FALSE]
  /\ timers' = timers - 1
  /\ UNCHANGED <<call, ret, derivativeCache, cacheHit>>

\* a click on "Generar": the button has no disabled binding
GenerateRandom ==
  /\ component.name # "none"
  /\ \E random \in IF component.name = "DerivativesCalculator"
                   THEN RandomDerivatives ELSE RandomLimits :
       component' =
         IF component.name = "DerivativesCalculator"
         THEN [component EXCEPT !.expression = random.expression,
                                !.variable = random.variable, !.order = random.order,
                                !.implicit = random.implicit, !.result = null,
                                !.generated = TRUE]
         ELSE [component EXCEPT !.expression = random.expression,
                                !.variable = random.variable, !.point = random.point,
                                !.result = null, !.generated = TRUE]
  /\ UNCHANGED <<call, ret, derivativeCache, cacheHit, timers>>

\* createCustomExercise() of DerivativesCalculator with a non-empty
\* customExpression: fills the refs and calls calculate()
CreateCustomExercise ==
  /\ component.name = "DerivativesCalculator"
  /\ timers < MaxTimers
  /\ \E customExpression \in CustomExpressions, customType \in CustomTypes :
       component' =
         calculate([component EXCEPT
                      !.implicit = (customType = "Derivada implicita"),
                      !.expression = customExpression,
                      !.order = IF customType = "Orden superior" THEN 2 ELSE 1])
  /\ timers' = timers + 1
  /\ UNCHANGED <<call, ret, derivativeCache, cacheHit>>

\* clear()
Clear ==
  /\ component.name # "none"
  /\ component' =
       IF component.name = "DerivativesCalculator"
       THEN [component EXCEPT !.expression = <<>>, !.variable = "x", !.order = 1,
                              !.implicit = FALSE, !.result = null]
       ELSE [component EXCEPT !.expression = <<>>, !.variable = "x",
                              !.point = <<"0">>, !.result = null]
  /\ UNCHANGED <<call, ret, derivativeCache, cacheHit, timers>>

NextComponent ==
  \/ Calculate
  \/ Timeout
  \/ GenerateRandom
  \/ CreateCustomExercise
  \/ Clear

SpecComponent == InitComponent /\ [][NextComponent]_vars

(***************************************************************************)
(* Properties.                                                             *)
(***************************************************************************)
returned == ret # pending

lastStep == ret.steps[Len(ret.steps)]

hasErrorStep == \E i \in 1..Len(ret.steps) : ret.steps[i].error

\* C1: the steps of every call of calculateDerivative or calculateLimit that
\* returned are not empty, and the last step is flagged final or flagged
\* error, never both
C1_LastStepFinalOrError ==
  returned /\ call.fn \in {"calculateDerivative", "calculateLimit"}
    => Len(ret.steps) > 0 /\ (lastStep.final # lastStep.error)

\* C2: when an adapter call raised during a call of calculateLimit, the
\* object returned either carries a result (a fallback recovered the
\* failure) or has an error-flagged step
C2_FailureRecoveredOrRecorded ==
  returned /\ call.fn = "calculateLimit" /\ ret.raised
    => ret.result # null \/ hasErrorStep

\* the points at which two derivatives are compared
SamplePoints == {Num(0), Num(1), Num(2), Num(3)}

\* the two texts have the same value at every sample point where the values
\* of both are exact numbers
sameValues(s, t, variable) ==
  \A p \in SamplePoints :
    LET a == EvaluateString(s, variable, p)
        b == EvaluateString(t, variable, p)
    IN  a.k = "num" /\ b.k = "num" => a = b

\* C3: in explicit mode and order 1, the result of calculateDerivative has
\* the values of the adapter's derivative of the expression, whatever tag
\* the expression got
C3_ResultEqualsAdapterDerivative ==
  returned /\ call.fn = "calculateDerivative" /\ ~call.implicit /\ call.order = 1
    /\ ret.result # null /\ DerivativeString(call.expression, call.variable).ok
    => sameValues(ret.result.s, DerivativeString(call.expression, call.variable).v,
                  call.variable)

\* the call is the generated exercise (x^2 - a*a) / (x - a) at the point a
isRational00Call(a) ==
  call.fn = "calculateLimit" /\ call.expression = rational00Expression(a)
    /\ call.point = Num(a)

\* C4: for a in 1..MaxA, the limit of (x^2 - a*a) / (x - a) at a is 2a, with
\* the indetermination 0/0 and the method difference of squares
C4_Rational00ByDifferenceOfSquares ==
  \A a \in 1..MaxA :
    returned /\ isRational00Call(a)
      => /\ ret.result = Num(2 * a)
         /\ ret.indetermination = "0/0"
         /\ ret.factorizationMethod = "Diferencia de cuadrados"

\* C4, witness: the exercise for a = 3 returned 6
C4_Witness == returned /\ isRational00Call(3) /\ ret.result = Num(6)

\* the index of the first occurrence of a name in the log, 0 when absent
firstIn(log, name) ==
  IF \E i \in 1..Len(log) : log[i] = name
  THEN SetMin({i \in 1..Len(log) : log[i] = name}) ELSE 0

\* C5: the numeric approximation is called only after the radical
\* rationalization was called
C5_NumericOnlyAfterRadical ==
  returned /\ call.fn = "calculateLimit" /\ firstIn(ret.log, "applyLHopitalNumerically") # 0
    => /\ firstIn(ret.log, "tryRationalizeRadicals") # 0
       /\ firstIn(ret.log, "tryRationalizeRadicals")
            < firstIn(ret.log, "applyLHopitalNumerically")

\* the numerator and the denominator resolveIndetermination reads from a
\* fraction with one "/"
numeratorOf(expression) == StripParens(Trim(SplitOn(expression, "/")[1]))
denominatorOf(expression) == StripParens(Trim(SplitOn(expression, "/")[2]))

\* the call reached the common-factor cancellation, and the simplified
\* fraction has a finite value at the point
commonFactorApplies ==
  /\ call.fn = "calculateLimit" /\ ~isInfinitePoint(call.point)
  /\ ret.indetermination = "0/0"
  /\ Len(SplitOn(call.expression, "/")) = 2
  /\ tryDifferenceOfSquares(numeratorOf(call.expression), denominatorOf(call.expression),
                            call.variable, call.point).res = null
  /\ tryCommonFactorization(numeratorOf(call.expression), denominatorOf(call.expression),
                            call.variable, call.point).res # null

\* C6: when difference of squares does not apply and the simplified fraction
\* has the finite value v at the point, calculateLimit returns v, its last
\* step is final and the method is the common-factor cancellation
C6_CommonFactorAccepted ==
  returned /\ commonFactorApplies
    => /\ ret.result = tryCommonFactorization(numeratorOf(call.expression),
                                              denominatorOf(call.expression),
                                              call.variable, call.point).res.result
       /\ lastStep.final
       /\ ret.factorizationMethod = "Factorizacion comun"

\* the value of the expression of the call at its finite point
directValue == Eval(Parse(call.expression), ScopeOf(call.variable, call.point))

\* the direct evaluation of the call succeeds with a finite number
directlyFinite ==
  /\ call.fn = "calculateLimit" /\ call.point.k = "num"
  /\ ~IsErr(Parse(call.expression))
  /\ directValue.k \in {"num", "big"}

\* C7: at a finite point where the expression has a finite value v, the
\* result is v, indetermination and method are null, and nothing but the
\* direct evaluation ran
C7_DirectEvaluation ==
  returned /\ directlyFinite
    => /\ ret.result = directValue
       /\ ret.indetermination = "null"
       /\ ret.factorizationMethod = "null"
       /\ ret.log = <<"evaluate">>

\* C7, witness: x*x at 2 returned 4 by direct evaluation
C7_Witness ==
  returned /\ directlyFinite /\ call.expression = <<"x", "*", "x">>
    /\ call.point = Num(2) /\ ret.result = Num(4)

\* the degree and the leading coefficient of a coefficient vector
degreeOf(c) == SetMax({i \in 0..MaxDegree : c[i] # 0})
leadCoeffOf(c) == c[degreeOf(c)]

\* the limit at infinity of num/den by the rule of the degrees
expectedAtInfinity(num, den) ==
  IF degreeOf(num) = degreeOf(den) THEN Rat(leadCoeffOf(num), leadCoeffOf(den))
  ELSE IF degreeOf(num) < degreeOf(den) THEN Num(0)
  ELSE Infinity(IF leadCoeffOf(num) * leadCoeffOf(den) > 0 THEN 1 ELSE -1)

\* C8: for a quotient of polynomials and an infinite point,
\* handleInfinityLimit returns the ratio of the leading coefficients when
\* the degrees are equal, 0 when the numerator's is smaller, and the
\* infinity of the sign of that ratio when it is larger
C8_DegreeRule ==
  returned /\ call.fn = "handleInfinityLimit"
    => ret # null /\ ret.result = expectedAtInfinity(call.num, call.den)

\* C9: factorizationMethod is null when the result is null or when no
\* indetermination was detected
C9_MethodOnlyWhenResolved ==
  returned /\ call.fn = "calculateLimit"
    /\ (ret.result = null \/ ret.indetermination = "null")
    => ret.factorizationMethod = "null"

\* C10: no call of calculateImplicitDerivative ends because a
\* deriveImplicitTerm kept calling itself until the stack was full
C10_RecursionReachesBase ==
  returned /\ call.fn = "calculateImplicitDerivative" => ~ret.overflow

\* the call differentiates an equation implicitly
implicitCall ==
  \/ call.fn \in {"calculateImplicitDerivative", "calculateImplicitDerivative2"}
  \/ (call.fn = "calculateDerivative" /\ call.implicit)

\* the manual solvers of the two engines
ManualSolvers == {"manualSolveForYPrime", "solveForYPrimeManual"}

\* a step of the object returned says that y' was not isolated
notIsolatedSaid ==
  \E i \in 1..Len(ret.steps) : ~ret.steps[i].error /\ ret.steps[i].content = "not isolated"

\* the object returned gives the derived equation in place of a derivative
equationGiven ==
  \E i \in 1..Len(ret.steps) :
    ~ret.steps[i].error /\ ret.steps[i].content \in {"not isolated", "derived equation"}

IsolationTitles ==
  {"Despejando y'", "Despeje manual de y'", "Solucion para y'", "Despejando y' manualmente"}

\* a step of the object returned reports y' isolated
isolatedSaid == \E i \in 1..Len(ret.steps) : ret.steps[i].title \in IsolationTitles

\* C12: a call of calculateImplicitDerivative (of either engine) that
\* returned without an error step and without isolating y' returns the
\* simplified equation as its result and says that y' was not isolated
C12_NotIsolatedReturnsEquation ==
  /\ returned
  /\ call.fn \in {"calculateImplicitDerivative", "calculateImplicitDerivative2"}
  /\ ~hasErrorStep /\ ~isolatedSaid
  => ret.result = Str(ret.equation) /\ notIsolatedSaid

\* C14: a call of the second calculateDerivative that returns an object
\* from derivativeCache returns one stored by a call of the same
\* expression, variable, order and implicit flag
C14_CacheEntryOfSameArguments ==
  returned /\ call.fn = "calculateDerivative2" /\ cacheHit
    => /\ ret.expression = call.expression
       /\ ret.variable = call.variable
       /\ ret.order = call.order
       /\ ret.implicit = call.implicit

\* C15: every error-flagged step of an object returned by
\* calculateDerivative, calculateImplicitDerivative or calculateLimit holds
\* a description of the failure and the expression that failed
C15_ErrorStepNamesExpression ==
  returned /\ call.fn \in {"calculateDerivative", "calculateImplicitDerivative",
                           "calculateImplicitDerivative2", "calculateDerivative2",
                           "calculateLimit"}
    => \A i \in 1..Len(ret.steps) :
         ret.steps[i].error
           => ret.steps[i].content.description /\ ret.steps[i].content.message.expression

\* the tag of a trimmed string by the order of tests: sum when it holds a +
\* or a - at a position other than the first, product when it holds * and
\* neither / nor ^, quotient when it holds /, power when it holds ^, chain
\* when a known function name is followed by its argument, else simple
tagByPrecedence(expr) ==
  IF Includes(expr, "+") \/ (\E i \in 2..Len(expr) : expr[i] = "-") THEN "sum"
  ELSE IF Includes(expr, "*") /\ ~Includes(expr, "/") /\ ~Includes(expr, "^") THEN "product"
  ELSE IF Includes(expr, "/") THEN "quotient"
  ELSE IF Includes(expr, "^") THEN "power"
  ELSE IF \E i \in 1..(Len(expr) - 1) : expr[i] \in ChainNames /\ expr[i + 1] = "("
    THEN "chain"
  ELSE "simple"

\* C16: analyzeExpression returns the tag that the order of tests gives
\* to the trimmed string
C16_TagByPrecedence ==
  returned /\ call.fn = "analyzeExpression"
    => ret.type = tagByPrecedence(Trim(call.expression))

\* the call is an explicit differentiation by the first engine
explicitCall == call.fn = "calculateDerivative" /\ ~call.implicit

\* the text round k of the loop of calculateDerivative differentiates: Ok of
\* the text, or Raised when an earlier round raised
roundInput(k) ==
  deriveOrders(Trim(call.expression), call.variable, k - 1, 1, <<>>, <<>>).r

\* the structural rule of deriveExplicit raises on the text e: the tag is
\* not "simple" and the handler or the simplification of its result raises
structuralRaises(e) ==
  LET type == analyzeExpression(e, call.variable)
      h == dispatch(type, e, call.variable, <<>>, <<>>)
  IN  type # "simple" /\ (~h.r.ok \/ ~SimplifyString(h.r.v).ok)

\* the adapter's generic differentiation raises on the text e
genericRaises(e) == ~DerivativeString(e, call.variable).ok

\* the structural rule of round k raised
ruleRaisedIn(k) == roundInput(k).ok /\ structuralRaises(roundInput(k).v)

\* C17: in an explicit call of calculateDerivative, a round whose
\* structural rule raises returns what the generic differentiation gives
\* for its text; when that raises too, whatever the earlier rounds gave,
\* the call returns the result null and its last step is flagged error
C17_FallbackThenError ==
  returned /\ explicitCall
    => \A k \in 1..call.order :
         ruleRaisedIn(k)
           => IF genericRaises(roundInput(k).v)
              THEN ret.result = null /\ lastStep.error
              ELSE roundInput(k + 1) = DerivativeString(roundInput(k).v, call.variable)

\* C17, witness: a call with a round that raised in the structural rule
\* and in the generic differentiation; it returned null with an error step
\* last
C17_Witness ==
  /\ returned /\ explicitCall
  /\ \E k \in 1..call.order : ruleRaisedIn(k) /\ genericRaises(roundInput(k).v)
  /\ ret.result = null /\ lastStep.error

\* the text the handler of the structural rule returns for the text e
ruleText(e) ==
  dispatch(analyzeExpression(e, call.variable), e, call.variable, <<>>, <<>>).r

\* the simplified form of the derivative of round k of the loop: of the
\* text of the structural rule when that rule did not raise, else of the
\* derivative the library builds for the text of the round
simplifiedDerivativeOf(k) ==
  LET e == roundInput(k).v
  IN  IF analyzeExpression(e, call.variable) # "simple" /\ ~structuralRaises(e)
      THEN NodeString(SimplifyParsed(Parse(ruleText(e).v)))
      ELSE NodeString(SimplifyParsed(Deriv(Parse(e), call.variable)))

outerSlashes(expression) ==
  {i \in 1..Len(expression) : expression[i] = "/" /\ Depths(expression)[i] = 0}

\* a text without the pair of parentheses that wraps it
withoutWrapping(t) ==
  IF Len(t) >= 2 /\ t[1] = "(" /\ t[Len(t)] = ")" THEN SubStr(t, 2, Len(t) - 1) ELSE t

\* ((f')*(g) - (f)*(g'))/((g)^2) as deriveQuotient writes it
quotientRuleText(f, g, fPrime, gPrime) ==
  <<"(", "(">> \o fPrime \o <<")", " ", "*", " ", "(">> \o g
    \o <<")", " ", "-", " ", "(">> \o f \o <<")", " ", "*", " ", "(">> \o gPrime
    \o <<")", ")", " ", "/", " ", "(", "(">> \o g \o <<")", "^", "2", ")">>

\* C19: for a text with a / outside all parentheses, f being the text
\* before the first such / and g the text after it, each without its
\* wrapping parentheses, and both differentiable, deriveQuotient returns
\* ((f')*(g) - (f)*(g'))/((g)^2); for a text whose every / stands inside
\* parentheses it names no numerator and no denominator
C19_SplitsAtFirstOuterSlash ==
  returned /\ call.fn = "deriveQuotient"
    => IF outerSlashes(call.expression) # {}
       THEN LET i == SetMin(outerSlashes(call.expression))
                f == withoutWrapping(Trim(SubStr(call.expression, 1, i - 1)))
                g == withoutWrapping(Trim(SubStr(call.expression, i + 1,
                                                 Len(call.expression))))
                fPrime == DerivativeString(f, call.variable)
                gPrime == DerivativeString(g, call.variable)
            IN  fPrime.ok /\ gPrime.ok
                  => ret.r = Ok(quotientRuleText(f, g, fPrime.v, gPrime.v))
       ELSE \A k \in 1..Len(ret.steps) :
              ret.steps[k].title # "Identificacion de numerador y denominador"

\* the simplified numerator of the fraction of the call, without blanks
simplifiedNumerator ==
  NoSpace(SimplifyString(StripParens(Trim(SplitOn(call.expression, "/")[1]))).v)

\* the text B of a simplified numerator A^2-B
subtrahendOf(normNum) == Trim(SubStr(normNum, diffSquaresAt(normNum) + 3, Len(normNum)))

\* the text is a square C^2
isSquareText(t) == Len(t) >= 3 /\ t[Len(t) - 1] = "^" /\ t[Len(t)] = "2"

\* C20: calculateLimit resolves a limit by the difference of squares only
\* when the simplified numerator is A^2 - B with B a bare number or a
\* square C^2
C20_OnlyNumberOrSquare ==
  returned /\ call.fn = "calculateLimit"
    /\ ret.factorizationMethod = "Diferencia de cuadrados"
    => /\ diffSquaresAt(simplifiedNumerator) # 0
       /\ \/ isNumericString(subtrahendOf(simplifiedNumerator))
          \/ isSquareText(subtrahendOf(simplifiedNumerator))

\* the position of y in a term c*y^n
yAt(term) == CHOOSE k \in 1..Len(term) : term[k] = "y"

\* the number the coefficient of a term c*y^n stands for
coefficientNumber(term) ==
  LET prefix == SubStr(term, 1, yAt(term) - 1)
      c == IF prefix # <<>> /\ prefix[Len(prefix)] = "*"
           THEN SubStr(prefix, 1, Len(prefix) - 1) ELSE prefix
  IN  IF c = <<>> THEN 1
      ELSE IF c = <<"-">> THEN -1
      ELSE IF c[1] = "-" THEN 0 - DigitsVal(Tail(c))
      ELSE DigitsVal(c)

\* the value of n*c*y^(n-1)*y' (of c*y' for a term c*y) where y is a and y'
\* is b
chainRuleValue(term, a, b) ==
  LET k == yAt(term)
      c == coefficientNumber(term)
      n == DigitsVal(SubStr(term, k + 2, Len(term)))
  IN  IF k = Len(term) THEN Num(c * b)
      ELSE IF n = 0 THEN Num(0)
      ELSE VMul(VMul(Num(n * c), NatPow(Num(a), n - 1)), Num(b))

\* the values of y and of y' at which a derived term is compared
TermSamples == {1, 2, 3}

\* C21: for a term c*y^n or c*y, deriveImplicitTerm returns a text the
\* library can parse, with the value of n*c*y^(n-1)*y' (of c*y')
C21_ChainRuleOfPower ==
  returned /\ call.fn = "deriveImplicitTerm"
    => /\ ret.r.ok
       /\ ~IsErr(Parse(replaceYPrime(ret.r.v)))
       /\ \A a \in TermSamples, b \in TermSamples :
            Eval(Parse(replaceYPrime(ret.r.v)), [s \in {"y", "yp"} |-> IF s = "y" THEN Num(a) ELSE Num(b)])
              = chainRuleValue(call.term, a, b)

RECURSIVE additiveTerms(_)
\* the terms a side of a fraction is the sum or difference of
additiveTerms(node) ==
  IF node.t = "P" THEN additiveTerms(node.args[1])
  ELSE IF node.t = "O" /\ node.op \in {"+", "-"} /\ Len(node.args) = 2
  THEN additiveTerms(node.args[1]) \cup additiveTerms(node.args[2])
  ELSE {node}

RECURSIVE polynomialShape(_, _)
\* a term of a supported shape: a symbol, a constant, a product of such
\* factors, a power of the variable with a constant exponent
polynomialShape(node, variable) ==
  \/ node.t \in {"S", "C"}
  \/ /\ node.t = "O" /\ node.op = "*"
     /\ \A i \in 1..Len(node.args) : polynomialShape(node.args[i], variable)
  \/ /\ node.t = "O" /\ node.op = "^" /\ Len(node.args) = 2
     /\ node.args[1] = SymbolNode(variable) /\ node.args[2].t = "C"

\* the call is a limit at an infinity of a fraction with a term, in its
\* numerator or its denominator, that is not of a supported shape and not
\* a polynomial either: a function of the variable
hasUnsupportedTerm ==
  /\ call.fn = "calculateLimit" /\ isInfinitePoint(call.point)
  /\ LET node == Parse(call.expression)
     IN  /\ node.t = "O" /\ node.op = "/"
         /\ \E side \in 1..2 : \E term \in additiveTerms(node.args[side]) :
              /\ ~polynomialShape(term, call.variable)
              /\ term.t = "F" /\ HasSymbol(term, call.variable)

\* C22: at an infinite point, when a term of the numerator or of the
\* denominator is a function of the variable, which is not a supported
\* polynomial shape, handleInfinityLimit returns null and calculateLimit
\* evaluates at the large finite value
C22_UnsupportedTermFallsBack ==
  returned /\ hasUnsupportedTerm
    => /\ handleInfinityLimit(call.expression, call.variable, call.point) = null
       /\ Len(ret.log) >= 2 /\ ret.log[2] = "evaluateAtInfinity"

\* C23: on a text with balanced parentheses, here one the library parses,
\* every term splitTerms returns has balanced parentheses and does not end
\* with *, / or ^
C23_TermsAreWhole ==
  returned /\ call.fn = "splitTerms" /\ Balanced(call.expression)
    /\ ~IsErr(Parse(call.expression))
    => \A i \in 1..Len(ret.terms) :
         /\ Balanced(ret.terms[i])
         /\ ret.terms[i][Len(ret.terms[i])] \notin {"*", "/", "^"}

\* the entry points that return an object with the steps of the solution
solverCall == call.fn \in {"calculateDerivative", "calculateDerivative2", "calculateLimit"}

\* C24: in the steps calculateDerivative and calculateLimit return, a step
\* flagged final is the last step, so that at most one step is flagged
C24_FinalStepIsLast ==
  returned /\ solverCall
    => \A i \in 1..Len(ret.steps) : ret.steps[i].final => i = Len(ret.steps)

\* C25: a result calculateLimit reports with the difference of squares as
\* its method is a finite number
C25_SquaresResultFinite ==
  returned /\ call.fn = "calculateLimit"
    /\ ret.factorizationMethod = "Diferencia de cuadrados"
    => IsFiniteNumber(ret.result)

\* the evaluations at the value 1000000 or -1000000
SurrogateEvaluations == {"evaluateInfinityLimit", "evaluateAtInfinity"}

\* C26: for a finite point, calculateLimit does not evaluate the expression
\* at the value that stands for an infinity
C26_FinitePointNotAtSurrogate ==
  returned /\ call.fn = "calculateLimit" /\ ~isInfinitePoint(call.point)
    => \A i \in 1..Len(ret.log) : ret.log[i] \notin SurrogateEvaluations

\* calculateLimit returned what applyLHopitalNumerically gave
numericCall ==
  /\ returned /\ call.fn = "calculateLimit"
  /\ ret.factorizationMethod = "Aproximacion numerica (Regla de L'Hopital)"

\* the values of the expression of the call at point + 0.00001 and at
\* point - 0.00001
rightValueOfCall ==
  EvaluateString(call.expression, call.variable, VAdd(numPointOf(call.point), lhopitalEpsilon))

leftValueOfCall ==
  EvaluateString(call.expression, call.variable, VSub(numPointOf(call.point), lhopitalEpsilon))

\* C27: the result of the numeric strategy is the mean of the values at the
\* two neighbours of the point, rounded to four decimals, whether the two
\* values agree or not: it is 0 when they are v and -v, and the call ends
\* with a final step, never with a step that reports no limit.  A sum the
\* arithmetic above does not represent is Big, and says nothing.
C27_MeanOfNeighbours ==
  numericCall
    => /\ ret.result = toFixed4(VDiv(VAdd(rightValueOfCall, leftValueOfCall), Num(2)))
       /\ rightValueOfCall.k = "num" /\ leftValueOfCall = VNeg(rightValueOfCall)
            => ret.result \in {Num(0), Big}
       /\ ret.result # null /\ lastStep.final /\ ~hasErrorStep

\* the two values are v and -v, v not 0, and the limit reported is 0
C27_Witness ==
  /\ numericCall
  /\ rightValueOfCall.k = "num" /\ rightValueOfCall # Num(0)
  /\ leftValueOfCall = VNeg(rightValueOfCall)
  /\ ret.result = Num(0)

\* the infinite point in the other direction
oppositePoint(point) ==
  IF isPositiveInf(point) THEN StringPoint("-infinity") ELSE StringPoint("infinity")

\* C28: handleInfinityLimit returns for an expression at -infinity what it
\* returns for it at +infinity
C28_SameInBothDirections ==
  returned /\ call.fn = "handleInfinityLimit"
    => ret = handleInfinityLimit(call.expression, call.variable, oppositePoint(call.point))

\* an infinite limit at -infinity of a quotient whose degrees differ by an
\* odd number
C28_Witness ==
  /\ returned /\ call.fn = "handleInfinityLimit" /\ call.point = StringPoint("-infinity")
  /\ (degreeOf(call.num) - degreeOf(call.den)) % 2 = 1
  /\ ret # null /\ ret.result.k = "inf"

\* the names of the structural rules
StructuralRules ==
  {"Regla de la suma", "Regla del producto", "Regla del cociente", "Regla de la cadena",
   "Regla de la potencia"}

\* the steps a handler records only when it applies the formula of its rule
FormulaSteps ==
  {"Separacion de terminos", "Aplicacion de la formula",
   "Aplicacion de la regla de la cadena", "Aplicacion de la regla de la potencia"}

\* the derivative of the text e is the one the formula of the rule named
\* gives: e has the tag of the rule, its handler applies the formula, and
\* neither the handler nor the simplification of its result raises
formulaProduced(rule, e) ==
  LET type == analyzeExpression(e, call.variable)
      h == dispatch(type, e, call.variable, <<>>, <<>>)
  IN  /\ tagRule(type) = <<rule>>
      /\ ~structuralRaises(e)
      /\ \E i \in 1..Len(h.steps) : h.steps[i].title \in FormulaSteps

\* C29: the rules of an explicit call of calculateDerivative hold no name
\* twice, and hold the name of a structural rule only when the formula of
\* that rule produced the derivative of a round of the call
C29_RulesOfAppliedFormulas ==
  returned /\ explicitCall
    => /\ \A i, j \in 1..Len(ret.rules) : i # j => ret.rules[i] # ret.rules[j]
       /\ \A i \in 1..Len(ret.rules) :
            ret.rules[i] \in StructuralRules
              => \E k \in 1..call.order :
                   roundInput(k).ok /\ formulaProduced(ret.rules[i], roundInput(k).v)

\* C30: in DerivativesCalculator and LimitsCalculator, once generateRandom()
\* has set result to null, result stays null until calculate() is invoked
\* again, whatever callbacks of earlier calculate() calls run in between
C30_NullUntilCalculate ==
  component.name # "none" /\ component.generated => component.result = null
====
